---- MODULE Spec2Model ----
(***************************************************************************)
(* Model of the ESP32 pin controller: the Pin State Store (PinController), *)
(* the command parser (CommandParser), the command handlers of the network *)
(* server and the serial console, and the TCP client slots of the network  *)
(* server.                                                                 *)
(***************************************************************************)
EXTENDS Integers, Sequences, FiniteSets, TLC

(***************************************************************************)
(* Static configuration (Config.h) and the inputs the model draws from.    *)
(***************************************************************************)

\* Config.h: the pins that may be controlled.
SAFE_PINS == <<4, 5, 12, 13, 14, 15, 16, 17, 18, 19, 21, 22, 23, 25, 26, 27, 32, 33>>

SAFE_PIN_COUNT == Len(SAFE_PINS)

\* PinController.cpp: configurePWMOutput refuses once this many channels
\* have been handed out.
PWM_CHANNEL_LIMIT == 16

\* Config.h: size of the TCP client slot array.
MAX_TCP_CLIENTS == 4

\* Stream connections attempted in a run.
MaxConns == 5

Conns == 1..MaxConns

\* Lines sent by the clients and not yet read by the multiplexer, in all.
MaxUnread == 1

\* Allowed pins the general specification addresses.
PinsInPlay == {4, 5}

\* A pin outside SAFE_PINS the general specification addresses (a boot-mode pin).
BadPins == {0}

\* Pins outside SAFE_PINS the properties try in every reachable state.
BadPinProbe == {-1, 0, 34}

\* Pins outside SAFE_PINS the properties address by command line.
BadPinLineProbe == {0, 34}

PinArgs == PinsInPlay \cup BadPins

\* Values passed to setDigital / SET: both legal values and an illegal one.
DigitalArgs == {0, 1, 2}

\* Values passed to setPWM / PWM: a legal value and an illegal one on each side.
PwmArgs == {255, 256, -1}

PwmProbe == {-1, 0, 255, 256}

\* Allowed pins the properties try in every reachable state: the pins in
\* play and one the specification never touches.
PinProbe == PinsInPlay \cup {12}

\* Levels digitalRead can return.
Levels == {0, 1}

(***************************************************************************)
(* PinController                                                           *)
(***************************************************************************)

\* PinState::PinState()
DefaultPinState == [mode |-> "NOT_CONFIGURED", value |-> 0, isInitialized |-> FALSE]

\* A range check in place of the search of SAFE_PINS.
isValidPin_gpioRange(pin) == pin >= 0 /\ pin <= 39

\* PinController::isValidPin: linear search of SAFE_PINS.
isValidPin(pin) == \E i \in 1..SAFE_PIN_COUNT : SAFE_PINS[i] = pin

\* std::map assignment m[k] = v (inserts or overwrites).
MapPut(f, k, v) == [x \in (DOMAIN f) \cup {k} |-> IF x = k THEN v ELSE f[x]]

\* The empty std::map.
EmptyMap == [x \in {} |-> 0]

\* std::map::operator[] used as a reference: inserts a default-constructed
\* PinState when the key is absent.
TouchPinState(m, pin) ==
    IF pin \in DOMAIN m.pinStates THEN m
    ELSE [m EXCEPT !.pinStates = MapPut(m.pinStates, pin, DefaultPinState)]

\* One hardware call appended to the call log of the running operation.
HwCall(m, call) == [m EXCEPT !.hwCalls = Append(m.hwCalls, call)]

\* pinMode(pin, mode)
pinMode(m, pin, mode) ==
    HwCall([m EXCEPT !.hwMode[pin] = mode], <<"pinMode", pin, mode>>)

\* digitalWrite(pin, level): recorded in the call log.
digitalWrite(m, pin, level) == HwCall(m, <<"digitalWrite", pin, level>>)

\* ledcSetup / ledcAttachPin / ledcWrite: recorded in the call log.
ledcSetup(m, channel) == HwCall(m, <<"ledcSetup", channel>>)

ledcAttachPin(m, pin, channel) == HwCall(m, <<"ledcAttachPin", pin, channel>>)

ledcWrite(m, channel, duty) == HwCall(m, <<"ledcWrite", channel, duty>>)

\* configureDigitalOutput that keeps the value recorded so far.
configureDigitalOutput_keepsValue(m, pin) ==
    LET m1 == digitalWrite(pinMode(m, pin, "OUTPUT"), pin, 0)
        m2 == TouchPinState(m1, pin)
    IN  [m   |-> [m2 EXCEPT !.pinStates[pin] =
                     [mode |-> "DIGITAL_OUTPUT", value |-> @.value, isInitialized |-> TRUE]],
         ret |-> TRUE]

\* PinController::configureDigitalOutput
configureDigitalOutput(m, pin) ==
    LET m1 == digitalWrite(pinMode(m, pin, "OUTPUT"), pin, 0)
        m2 == TouchPinState(m1, pin)
    IN  [m   |-> [m2 EXCEPT !.pinStates[pin] =
                     [mode |-> "DIGITAL_OUTPUT", value |-> 0, isInitialized |-> TRUE]],
         ret |-> TRUE]

\* configurePWMOutput whose pool check passes one channel too many.
configurePWMOutput_offByOne(m, pin) ==
    IF m.nextPWMChannel > PWM_CHANNEL_LIMIT
    THEN [m |-> m, ret |-> FALSE]
    ELSE LET channel == m.nextPWMChannel
             m1 == [m EXCEPT !.nextPWMChannel = channel + 1]
             m2 == ledcWrite(ledcAttachPin(ledcSetup(m1, channel), pin, channel), channel, 0)
             m3 == TouchPinState(m2, pin)
         IN  [m   |-> [m3 EXCEPT !.pinStates[pin] =
                          [mode |-> "PWM_OUTPUT", value |-> 0, isInitialized |-> TRUE],
                       !.pinToPWMChannel = MapPut(m3.pinToPWMChannel, pin, channel)],
              ret |-> TRUE]

\* configurePWMOutput that takes the channel without advancing the counter.
configurePWMOutput_noAdvance(m, pin) ==
    IF m.nextPWMChannel >= PWM_CHANNEL_LIMIT
    THEN [m |-> m, ret |-> FALSE]
    ELSE LET channel == m.nextPWMChannel
             m2 == ledcWrite(ledcAttachPin(ledcSetup(m, channel), pin, channel), channel, 0)
             m3 == TouchPinState(m2, pin)
         IN  [m   |-> [m3 EXCEPT !.pinStates[pin] =
                          [mode |-> "PWM_OUTPUT", value |-> 0, isInitialized |-> TRUE],
                       !.pinToPWMChannel = MapPut(m3.pinToPWMChannel, pin, channel)],
              ret |-> TRUE]

\* PinController::configurePWMOutput
configurePWMOutput(m, pin) ==
    IF m.nextPWMChannel >= PWM_CHANNEL_LIMIT
    THEN [m |-> m, ret |-> FALSE]
    ELSE LET channel == m.nextPWMChannel
             m1 == [m EXCEPT !.nextPWMChannel = channel + 1]
             m2 == ledcWrite(ledcAttachPin(ledcSetup(m1, channel), pin, channel), channel, 0)
             m3 == TouchPinState(m2, pin)
         IN  [m   |-> [m3 EXCEPT !.pinStates[pin] =
                          [mode |-> "PWM_OUTPUT", value |-> 0, isInitialized |-> TRUE],
                       !.pinToPWMChannel = MapPut(m3.pinToPWMChannel, pin, channel)],
              ret |-> TRUE]

\* PinController::setDigital
setDigital(m, pin, value) ==
    IF ~isValidPin(pin) THEN [m |-> m, ret |-> FALSE]
    ELSE IF value # 0 /\ value # 1 THEN [m |-> m, ret |-> FALSE]
    ELSE LET m1 == TouchPinState(m, pin)
             state == m1.pinStates[pin]
             c == IF ~state.isInitialized \/ state.mode # "DIGITAL_OUTPUT"
                  THEN configureDigitalOutput(m1, pin)
                  ELSE [m |-> m1, ret |-> TRUE]
         IN  IF ~c.ret THEN [m |-> c.m, ret |-> FALSE]
             ELSE [m   |-> [digitalWrite(c.m, pin, value) EXCEPT !.pinStates[pin].value = value],
                   ret |-> TRUE]

\* getDigital that records the pin it reads as an input in the store.
getDigital_recordsInput(m, pin, level) ==
    IF ~isValidPin(pin) THEN [m |-> m, ret |-> -1]
    ELSE IF /\ pin \in DOMAIN m.pinStates
            /\ m.pinStates[pin].isInitialized
            /\ m.pinStates[pin].mode = "DIGITAL_OUTPUT"
         THEN [m |-> m, ret |-> m.pinStates[pin].value]
         ELSE [m   |-> HwCall(pinMode([m EXCEPT !.pinStates =
                                  MapPut(@, pin, [mode |-> "DIGITAL_INPUT", value |-> level,
                                                  isInitialized |-> TRUE])],
                              pin, "INPUT"), <<"digitalRead", pin>>),
               ret |-> level]

\* getDigital without the cached-record path.
getDigital_alwaysRead(m, pin, level) ==
    IF ~isValidPin(pin) THEN [m |-> m, ret |-> -1]
    ELSE [m   |-> HwCall(pinMode(m, pin, "INPUT"), <<"digitalRead", pin>>),
          ret |-> level]

\* PinController::getDigital; level is what digitalRead returns if it is called.
getDigital(m, pin, level) ==
    IF ~isValidPin(pin) THEN [m |-> m, ret |-> -1]
    ELSE IF /\ pin \in DOMAIN m.pinStates
            /\ m.pinStates[pin].isInitialized
            /\ m.pinStates[pin].mode = "DIGITAL_OUTPUT"
         THEN [m |-> m, ret |-> m.pinStates[pin].value]
         ELSE [m   |-> HwCall(pinMode(m, pin, "INPUT"), <<"digitalRead", pin>>),
               ret |-> level]

\* toggle that writes back the value it read.
toggle_sameValue(m, pin, level) ==
    IF ~isValidPin(pin) THEN [m |-> m, ret |-> FALSE]
    ELSE LET g == getDigital(m, pin, level)
         IN  IF g.ret < 0 THEN [m |-> g.m, ret |-> FALSE]
             ELSE setDigital(g.m, pin, g.ret)

\* toggle that always drives the pin high.
toggle_alwaysHigh(m, pin, level) ==
    IF ~isValidPin(pin) THEN [m |-> m, ret |-> FALSE]
    ELSE LET g == getDigital(m, pin, level)
         IN  IF g.ret < 0 THEN [m |-> g.m, ret |-> FALSE]
             ELSE setDigital(g.m, pin, 1)

\* PinController::toggle
toggle(m, pin, level) ==
    IF ~isValidPin(pin) THEN [m |-> m, ret |-> FALSE]
    ELSE LET g == getDigital(m, pin, level)
         IN  IF g.ret < 0 THEN [m |-> g.m, ret |-> FALSE]
             ELSE setDigital(g.m, pin, IF g.ret = 0 THEN 1 ELSE 0)

\* setPWM whose range check misses the upper limit.
setPWM_noUpperCheck(m, pin, value) ==
    IF ~isValidPin(pin) THEN [m |-> m, ret |-> FALSE]
    ELSE IF value < 0 THEN [m |-> m, ret |-> FALSE]
    ELSE LET m1 == TouchPinState(m, pin)
             state == m1.pinStates[pin]
             c == IF ~state.isInitialized \/ state.mode # "PWM_OUTPUT"
                  THEN configurePWMOutput(m1, pin)
                  ELSE [m |-> m1, ret |-> TRUE]
         IN  IF ~c.ret THEN [m |-> c.m, ret |-> FALSE]
             ELSE LET channel == c.m.pinToPWMChannel[pin]
                  IN  [m   |-> [ledcWrite(c.m, channel, value)
                                   EXCEPT !.pinStates[pin].value = value],
                       ret |-> TRUE]

\* setPWM that configures the pin before it checks the value.
setPWM_checksLate(m, pin, value) ==
    IF ~isValidPin(pin) THEN [m |-> m, ret |-> FALSE]
    ELSE LET m1 == TouchPinState(m, pin)
             state == m1.pinStates[pin]
             c == IF ~state.isInitialized \/ state.mode # "PWM_OUTPUT"
                  THEN configurePWMOutput(m1, pin)
                  ELSE [m |-> m1, ret |-> TRUE]
         IN  IF ~c.ret \/ value < 0 \/ value > 255 THEN [m |-> c.m, ret |-> FALSE]
             ELSE LET channel == c.m.pinToPWMChannel[pin]
                  IN  [m   |-> [ledcWrite(c.m, channel, value)
                                   EXCEPT !.pinStates[pin].value = value],
                       ret |-> TRUE]

\* PinController::setPWM
setPWM(m, pin, value) ==
    IF ~isValidPin(pin) THEN [m |-> m, ret |-> FALSE]
    ELSE IF value < 0 \/ value > 255 THEN [m |-> m, ret |-> FALSE]
    ELSE LET m1 == TouchPinState(m, pin)
             state == m1.pinStates[pin]
             c == IF ~state.isInitialized \/ state.mode # "PWM_OUTPUT"
                  THEN configurePWMOutput(m1, pin)
                  ELSE [m |-> m1, ret |-> TRUE]
         IN  IF ~c.ret THEN [m |-> c.m, ret |-> FALSE]
             ELSE LET channel == c.m.pinToPWMChannel[pin]
                  IN  [m   |-> [ledcWrite(c.m, channel, value)
                                   EXCEPT !.pinStates[pin].value = value],
                       ret |-> TRUE]

\* PinController::getPWM
getPWM(m, pin) ==
    IF ~isValidPin(pin) THEN -1
    ELSE IF /\ pin \in DOMAIN m.pinStates
            /\ m.pinStates[pin].isInitialized
            /\ m.pinStates[pin].mode = "PWM_OUTPUT"
         THEN m.pinStates[pin].value
         ELSE -1

\* PinController::getPinMode
getPinMode(m, pin) ==
    IF pin \in DOMAIN m.pinStates THEN m.pinStates[pin].mode ELSE "NOT_CONFIGURED"

\* PinController::isPinConfigured
isPinConfigured(m, pin) ==
    IF pin \in DOMAIN m.pinStates THEN m.pinStates[pin].isInitialized ELSE FALSE

\* The keys of a std::map<int, ...> in iteration (ascending) order.
RECURSIVE SortedKeys(_)
SortedKeys(S) ==
    IF S = {} THEN <<>>
    ELSE LET k == CHOOSE x \in S : \A y \in S : x <= y
         IN  <<k>> \o SortedKeys(S \ {k})

\* The loop of PinController::resetAllPins over the records, in key order.
RECURSIVE resetLoop(_, _)
resetLoop(m, keys) ==
    IF keys = <<>> THEN m
    ELSE LET pin == Head(keys)
             state == m.pinStates[pin]
             m1 == IF ~state.isInitialized THEN m
                   ELSE IF state.mode = "DIGITAL_OUTPUT" THEN digitalWrite(m, pin, 0)
                   ELSE IF state.mode = "PWM_OUTPUT"
                        THEN ledcWrite(m, m.pinToPWMChannel[pin], 0)
                        ELSE m
         IN  resetLoop(m1, Tail(keys))

\* resetAllPins that clears the maps and leaves the channel counter.
resetAllPins_keepsCounter(m) ==
    LET m1 == resetLoop(m, SortedKeys(DOMAIN m.pinStates))
    IN  [m   |-> [m1 EXCEPT !.pinStates = EmptyMap,
                            !.pinToPWMChannel = EmptyMap],
         ret |-> TRUE]

\* PinController::resetAllPins
resetAllPins(m) ==
    LET m1 == resetLoop(m, SortedKeys(DOMAIN m.pinStates))
    IN  [m   |-> [m1 EXCEPT !.pinStates = EmptyMap,
                            !.pinToPWMChannel = EmptyMap,
                            !.nextPWMChannel = 0],
         ret |-> TRUE]

\* The keys, in order, whose record is initialized.
RECURSIVE listInitialized(_, _)
listInitialized(m, keys) ==
    IF keys = <<>> THEN <<>>
    ELSE LET pin == Head(keys)
             rest == listInitialized(m, Tail(keys))
         IN  IF m.pinStates[pin].isInitialized THEN <<pin>> \o rest ELSE rest

\* PinController::getAllPinStates: the lines after "Configured Pins:".
getAllPinStates(m) ==
    LET line(pin) ==
            LET state == m.pinStates[pin]
            IN  IF state.mode = "DIGITAL_OUTPUT"
                THEN [pin |-> pin, what |-> "DIGITAL", value |-> state.value]
                ELSE IF state.mode = "PWM_OUTPUT"
                THEN [pin |-> pin, what |-> "PWM", value |-> state.value]
                ELSE [pin |-> pin, what |-> "UNKNOWN", value |-> -1]
    IN  [m   |-> m,
         ret |-> IF DOMAIN m.pinStates = {}
                 THEN <<[pin |-> -1, what |-> "None", value |-> -1]>>
                 ELSE LET pins == listInitialized(m, SortedKeys(DOMAIN m.pinStates))
                      IN  [i \in DOMAIN pins |-> line(pins[i])]]

\* getStateJSON that lists every record, initialized or not.
getStateJSON_allRecords(m) ==
    LET obj(pin) ==
            LET state == m.pinStates[pin]
            IN  [pin |-> pin, value |-> state.value,
                 mode |-> IF state.mode = "DIGITAL_OUTPUT" THEN "digital"
                          ELSE IF state.mode = "PWM_OUTPUT" THEN "pwm" ELSE ""]
        keys == SortedKeys(DOMAIN m.pinStates)
    IN  [m |-> m, ret |-> [i \in DOMAIN keys |-> obj(keys[i])]]

\* PinController::getStateJSON: the objects of the "pins" array; mode "" is
\* an object without a "mode" member.
getStateJSON(m) ==
    LET obj(pin) ==
            LET state == m.pinStates[pin]
            IN  [pin |-> pin, value |-> state.value,
                 mode |-> IF state.mode = "DIGITAL_OUTPUT" THEN "digital"
                          ELSE IF state.mode = "PWM_OUTPUT" THEN "pwm" ELSE ""]
        pins == listInitialized(m, SortedKeys(DOMAIN m.pinStates))
    IN  [m |-> m, ret |-> [i \in DOMAIN pins |-> obj(pins[i])]]

(***************************************************************************)
(* CommandParser                                                           *)
(*                                                                         *)
(* An input line is a record.  A text line is its keyword as typed and the *)
(* whitespace-separated parameter tokens after it; a JSON line is whether  *)
(* it deserializes and its members.  A token or JSON number is             *)
(* [num, n]: num says whether it begins with an integer, n is that one.    *)
(***************************************************************************)

Num(n) == [num |-> TRUE, n |-> n]

Word == [num |-> FALSE, n |-> 0]

\* String::toInt and JsonVariant -> int: the number, or 0 when there is none.
toInt(tok) == IF tok.num THEN tok.n ELSE 0

TextLine(kw, args) == [fmt |-> "text", kw |-> kw, args |-> args]

JsonLine(ok, members) == [fmt |-> "json", ok |-> ok, members |-> members]

\* A line with nothing left after String::trim.
BlankLine == TextLine("", <<>>)

\* The words in play, in upper case.
UpperWords ==
    {"SET", "GET", "TOGGLE", "PWM", "STATUS", "RESET", "RESET_PINS", "HELP", "FOO"}

\* The spellings in play of an upper-case word: every one of a three-letter
\* keyword, some of the longer ones.
Spellings(word) ==
    CASE word = "SET" -> {"SET", "SEt", "SeT", "Set", "sET", "sEt", "seT", "set"}
      [] word = "GET" -> {"GET", "GEt", "GeT", "Get", "gET", "gEt", "geT", "get"}
      [] word = "PWM" -> {"PWM", "PWm", "PwM", "Pwm", "pWM", "pWm", "pwM", "pwm"}
      [] word = "TOGGLE" -> {"TOGGLE", "toggle", "Toggle", "toGGle"}
      [] word = "STATUS" -> {"STATUS", "status", "Status"}
      [] word = "RESET" -> {"RESET", "reset", "Reset", "rESET"}
      [] word = "RESET_PINS" -> {"RESET_PINS", "reset_pins", "Reset_Pins"}
      [] word = "HELP" -> {"HELP", "help", "Help"}
      [] word = "FOO" -> {"FOO", "foo", "Foo"}
      [] OTHER -> {word}

\* A conversion that leaves the string as it is.
toUpperCase_asIs(s) == s

\* String::toUpperCase on the spellings in play.
toUpperCase(s) ==
    IF s \in UpperWords THEN s
    ELSE CASE s \in Spellings("SET") -> "SET"
           [] s \in Spellings("GET") -> "GET"
           [] s \in Spellings("PWM") -> "PWM"
           [] s \in Spellings("TOGGLE") -> "TOGGLE"
           [] s \in Spellings("STATUS") -> "STATUS"
           [] s \in Spellings("RESET") -> "RESET"
           [] s \in Spellings("RESET_PINS") -> "RESET_PINS"
           [] s \in Spellings("HELP") -> "HELP"
           [] s \in Spellings("FOO") -> "FOO"
           [] OTHER -> s

\* CommandParser::isValidPin: its own linear search of SAFE_PINS.
parserIsValidPin(pin) == \E i \in 1..SAFE_PIN_COUNT : SAFE_PINS[i] = pin

\* Command::Command()
NewCommand == [type |-> "INVALID", pin |-> -1, value |-> -1, errorMessage |-> ""]

\* CommandParser::stringToCommandType
stringToCommandType(cmdStr) ==
    IF cmdStr \in {"SET", "GET", "TOGGLE", "PWM", "STATUS", "RESET", "RESET_PINS", "HELP"}
    THEN cmdStr
    ELSE "INVALID"

\* A commandTypeToString without the RESET_PINS case.
commandTypeToString_noResetPins(type) ==
    IF type \in {"SET", "GET", "TOGGLE", "PWM", "STATUS", "RESET", "HELP"}
    THEN type
    ELSE "INVALID"

\* CommandParser::commandTypeToString
commandTypeToString(type) ==
    IF type \in {"SET", "GET", "TOGGLE", "PWM", "STATUS", "RESET", "RESET_PINS", "HELP"}
    THEN type
    ELSE "INVALID"

\* A command rejected by the parser with a reason.
Rejected(cmd, reason) == [cmd EXCEPT !.type = "INVALID", !.errorMessage = reason]

\* The range checks both parsers apply to SET and PWM values.
checkValue(cmd) ==
    IF cmd.type = "SET" /\ (cmd.value # 0 /\ cmd.value # 1)
    THEN Rejected(cmd, "SET value must be 0 or 1")
    ELSE IF cmd.type = "PWM" /\ (cmd.value < 0 \/ cmd.value > 255)
    THEN Rejected(cmd, "PWM value must be 0-255")
    ELSE cmd

\* CommandParser::parseText
parseText(line) ==
    LET cmdStr == toUpperCase(line.kw)
        type == stringToCommandType(cmdStr)
        cmd == [NewCommand EXCEPT !.type = type]
    IN  IF type = "INVALID"
        THEN [cmd EXCEPT !.errorMessage = "Invalid command: " \o cmdStr]
        ELSE IF type \in {"SET", "PWM"}
        THEN IF Len(line.args) < 2
             THEN Rejected(cmd, "Missing parameters (expected: pin value)")
             ELSE LET c2 == [cmd EXCEPT !.pin = toInt(line.args[1]),
                                        !.value = toInt(line.args[2])]
                  IN  IF ~parserIsValidPin(c2.pin)
                      THEN Rejected(c2, "Invalid pin number: " \o ToString(c2.pin))
                      ELSE checkValue(c2)
        ELSE IF type \in {"GET", "TOGGLE"}
        THEN IF Len(line.args) = 0
             THEN Rejected(cmd, "Missing pin parameter")
             ELSE LET c2 == [cmd EXCEPT !.pin = toInt(line.args[1])]
                  IN  IF ~parserIsValidPin(c2.pin)
                      THEN Rejected(c2, "Invalid pin number: " \o ToString(c2.pin))
                      ELSE c2
        ELSE cmd

\* CommandParser::parseJSON
parseJSON(line) ==
    IF ~line.ok
    THEN [NewCommand EXCEPT !.errorMessage = "JSON parse error: InvalidInput"]
    ELSE IF "cmd" \notin DOMAIN line.members
    THEN [NewCommand EXCEPT !.errorMessage = "Missing 'cmd' field"]
    ELSE
    LET cmdStr == toUpperCase(line.members["cmd"])
        type == stringToCommandType(cmdStr)
        cmd == [NewCommand EXCEPT !.type = type]
    IN  IF type = "INVALID"
        THEN [cmd EXCEPT !.errorMessage = "Invalid command type: " \o cmdStr]
        ELSE IF type \in {"SET", "GET", "TOGGLE", "PWM"}
        THEN IF "pin" \notin DOMAIN line.members
             THEN Rejected(cmd, "Missing 'pin' field")
             ELSE LET c2 == [cmd EXCEPT !.pin = toInt(line.members["pin"])]
                  IN  IF ~parserIsValidPin(c2.pin)
                      THEN Rejected(c2, "Invalid pin number: " \o ToString(c2.pin))
                      ELSE IF type \in {"SET", "PWM"}
                      THEN IF "value" \notin DOMAIN line.members
                           THEN Rejected(c2, "Missing 'value' field")
                           ELSE checkValue([c2 EXCEPT !.value = toInt(line.members["value"])])
                      ELSE c2
        ELSE cmd

\* CommandParser::parse; callers hand it the trimmed line.
parse(line) ==
    IF line.fmt = "text" /\ line.kw = "" /\ line.args = <<>>
    THEN [NewCommand EXCEPT !.errorMessage = "Empty command"]
    ELSE IF line.fmt = "json" THEN parseJSON(line)
    ELSE parseText(line)

\* generateResponse that never falls back on the parser's error message.
generateResponse_noReason(cmd, success, message, resultValue) ==
    [kind    |-> "envelope",
     success |-> success,
     command |-> commandTypeToString(cmd.type),
     pin     |-> IF cmd.pin >= 0 THEN cmd.pin ELSE -1,
     value   |-> IF resultValue >= 0 THEN resultValue ELSE -1,
     message |-> message]

\* generateResponse that leaves out the pin unless it is positive.
generateResponse_pinPositive(cmd, success, message, resultValue) ==
    [kind    |-> "envelope",
     success |-> success,
     command |-> commandTypeToString(cmd.type),
     pin     |-> IF cmd.pin > 0 THEN cmd.pin ELSE -1,
     value   |-> IF resultValue >= 0 THEN resultValue ELSE -1,
     message |-> IF Len(message) > 0 THEN message
                 ELSE IF ~success /\ Len(cmd.errorMessage) > 0 THEN cmd.errorMessage
                 ELSE ""]

\* CommandParser::generateResponse: the members of the JSON envelope;
\* pin, value and message are absent when -1, -1 and "".
generateResponse(cmd, success, message, resultValue) ==
    [kind    |-> "envelope",
     success |-> success,
     command |-> commandTypeToString(cmd.type),
     pin     |-> IF cmd.pin >= 0 THEN cmd.pin ELSE -1,
     value   |-> IF resultValue >= 0 THEN resultValue ELSE -1,
     message |-> IF Len(message) > 0 THEN message
                 ELSE IF ~success /\ Len(cmd.errorMessage) > 0 THEN cmd.errorMessage
                 ELSE ""]

(***************************************************************************)
(* Command execution: NetworkServer::processCommand and                    *)
(* SerialCommandHandler::executeCommand.  Each returns the store after the *)
(* command, the response written to the channel and whether the restart    *)
(* callback was invoked.                                                   *)
(***************************************************************************)

\* Nothing written.
NoResponse ==
    [kind |-> "none", success |-> FALSE, command |-> "", pin |-> -1, value |-> -1,
     message |-> ""]

\* The STATUS report and the HELP text, which are not envelopes.
Report(kind, command) ==
    [kind |-> kind, success |-> TRUE, command |-> command,
     pin |-> -1, value |-> -1, message |-> ""]

Outcome(m, resp, restart) == [m |-> m, resp |-> resp, restart |-> restart]

\* The switch both handlers share for SET, GET, TOGGLE, PWM and the default
\* branch; level is what digitalRead returns if it is called.
executePinCommand(m, cmd, level) ==
    IF cmd.type = "SET"
    THEN LET r == setDigital(m, cmd.pin, cmd.value)
         IN  Outcome(r.m,
                     generateResponse(cmd, r.ret,
                         IF r.ret THEN "Pin set successfully" ELSE "Failed to set pin",
                         cmd.value),
                     FALSE)
    ELSE IF cmd.type = "GET"
    THEN LET r == getDigital(m, cmd.pin, level)
         IN  Outcome(r.m,
                     generateResponse(cmd, r.ret >= 0,
                         IF r.ret >= 0 THEN "Pin value retrieved" ELSE "Failed to get pin value",
                         r.ret),
                     FALSE)
    ELSE IF cmd.type = "TOGGLE"
    THEN LET t == toggle(m, cmd.pin, level)
         IN  IF t.ret
             THEN LET g == getDigital(t.m, cmd.pin, level)
                  IN  Outcome(g.m,
                              generateResponse(cmd, TRUE, "Pin toggled successfully", g.ret),
                              FALSE)
             ELSE Outcome(t.m, generateResponse(cmd, FALSE, "Failed to toggle pin", -1), FALSE)
    ELSE IF cmd.type = "PWM"
    THEN LET r == setPWM(m, cmd.pin, cmd.value)
         IN  Outcome(r.m,
                     generateResponse(cmd, r.ret,
                         IF r.ret THEN "PWM set successfully" ELSE "Failed to set PWM",
                         cmd.value),
                     FALSE)
    ELSE Outcome(m, generateResponse(cmd, FALSE, "Unknown command", -1), FALSE)

\* NetworkServer::processCommand
processCommand(m, line, level) ==
    LET cmd == parse(line)
    IN  IF cmd.type = "INVALID"
        THEN Outcome(m, generateResponse(cmd, FALSE, "", -1), FALSE)
        ELSE IF cmd.type = "STATUS" THEN Outcome(m, Report("status", "STATUS"), FALSE)
        ELSE IF cmd.type = "RESET"
        THEN Outcome(m, generateResponse(cmd, TRUE, "System will restart in 2 seconds", -1),
                     FALSE)
        ELSE IF cmd.type = "HELP" THEN Outcome(m, Report("help", "HELP"), FALSE)
        ELSE executePinCommand(m, cmd, level)

\* SerialCommandHandler::processSerialCommands with executeCommand; a blank
\* line is left unanswered.
processSerialCommand(m, line, level) ==
    LET cmd == parse(line)
    IN  IF line = BlankLine THEN Outcome(m, NoResponse, FALSE)
        ELSE IF cmd.type = "INVALID"
        THEN Outcome(m, generateResponse(cmd, FALSE, "", -1), FALSE)
        ELSE IF cmd.type = "STATUS" THEN Outcome(m, Report("status", "STATUS"), FALSE)
        ELSE IF cmd.type = "RESET" THEN Outcome(m, Report("banner", "RESET"), TRUE)
        ELSE IF cmd.type = "HELP" THEN Outcome(m, Report("help", "HELP"), FALSE)
        ELSE executePinCommand(m, cmd, level)

(***************************************************************************)
(* NetworkServer: the stream side of the multiplexer.                      *)
(*                                                                         *)
(* A connection is known by a number from 1; 0 in a slot is an empty       *)
(* handle.  A connection is "unused" (not yet attempted), "pending" (in    *)
(* the listener's queue), "pendingClosed" (in the queue, the peer gone),   *)
(* "open" (accepted, both ends up), "peerClosed" (accepted, the peer gone) *)
(* or "stopped" (the server has released it).  An operation works on a     *)
(* record st of the controller m, the slots, the connections, the          *)
(* listener's queue, each connection's unread lines, and what the handler  *)
(* has written.                                                            *)
(***************************************************************************)

Slots == 0..(MAX_TCP_CLIENTS - 1)

\* WiFiClient::operator bool in a library where it answers connected().
hasHandle_connected(st, i) == st.tcpClients[i] # 0 /\ st.conn[st.tcpClients[i]] = "open"

\* WiFiClient::operator bool on slot i: the handle holds a connection.
hasHandle(st, i) == st.tcpClients[i] # 0

\* WiFiClient::connected on slot i
connected(st, i) == st.tcpClients[i] # 0 /\ st.conn[st.tcpClients[i]] = "open"

\* A line of plain text written to a client.
Text(str) == [kind |-> "line", text |-> str]

\* WiFiClient::println: the text reaches a connection whose peer is there.
println(st, c, what) ==
    IF st.conn[c] = "open"
    THEN [st EXCEPT !.sent = Append(@, [to |-> c, what |-> what])]
    ELSE st

\* WiFiClient::stop, and the release of a handle that is assigned over.
stop(st, c) == IF c = 0 THEN st ELSE [st EXCEPT !.conn[c] = "stopped"]

\* WiFiServer::available: the head of the listener's queue becomes a handle.
available(st) ==
    LET c == Head(st.backlog)
    IN  [st EXCEPT !.backlog = Tail(@),
                   !.conn[c] = IF @ = "pending" THEN "open" ELSE "peerClosed"]

\* The reject branch without the stop of the local handle.
rejectClient_noStop(st) ==
    LET c == Head(st.backlog)
    IN  println(available(st), c, Text("ERROR: Server full"))

\* The reject branch that makes room by dropping the client of slot 0.
rejectClient_evictsFirst(st) ==
    LET c   == Head(st.backlog)
        old == st.tcpClients[0]
    IN  [available(stop(st, old)) EXCEPT !.tcpClients[0] = c, !.inbox[old] = <<>>]

\* handleTCPClients, the branch for no free slot.
rejectClient(st) ==
    LET c == Head(st.backlog)
    IN  stop(println(available(st), c, Text("ERROR: Server full")), c)

\* handleTCPClients, the branch that fills slot i.
placeClient(st, i) ==
    LET c  == Head(st.backlog)
        s1 == IF hasHandle(st, i)
              THEN [stop(st, st.tcpClients[i]) EXCEPT !.tcpClients[i] = 0]
              ELSE st
        s2 == [available(s1) EXCEPT !.tcpClients[i] = c]
    IN  println(println(s2, c, Text("ESP32 Pin Controller Ready")),
                c, Text("Type HELP for command list"))

\* An accept that fills the last free slot.
acceptClient_lastFree(st) ==
    IF st.backlog = <<>> THEN st
    ELSE LET free == {i \in Slots : ~hasHandle(st, i) \/ ~connected(st, i)}
         IN  IF free # {}
             THEN placeClient(st, CHOOSE i \in free : \A j \in free : i >= j)
             ELSE rejectClient(st)

\* handleTCPClients, "Check for new clients".
acceptClient(st) ==
    IF st.backlog = <<>> THEN st
    ELSE LET free == {i \in Slots : ~hasHandle(st, i) \/ ~connected(st, i)}
         IN  IF free # {}
             THEN placeClient(st, CHOOSE i \in free : \A j \in free : i <= j)
             ELSE rejectClient(st)

\* handleTCPClients, "Handle existing clients", the body for slot i.
serveClient(st, i, level) ==
    LET c == st.tcpClients[i]
    IN  IF hasHandle(st, i) /\ connected(st, i)
        THEN IF st.inbox[c] # <<>>
             THEN LET command == Head(st.inbox[c])
                      s1 == [st EXCEPT !.inbox[c] = Tail(@)]
                  IN  IF command # BlankLine
                      THEN LET out == processCommand(s1.m, command, level)
                           IN  println([s1 EXCEPT !.m = out.m], c, out.resp)
                      ELSE s1
             ELSE st
        ELSE IF hasHandle(st, i)
        THEN [stop(st, c) EXCEPT !.tcpClients[i] = 0]
        ELSE st

RECURSIVE clientLoop(_, _, _)
\* handleTCPClients, "Handle existing clients", slots i and up.
clientLoop(st, i, level) ==
    IF i >= MAX_TCP_CLIENTS THEN st
    ELSE clientLoop(serveClient(st, i, level), i + 1, level)

\* NetworkServer::handleTCPClients
handleTCPClients(st, level) == clientLoop(acceptClient(st), 0, level)

\* NetworkServer::getConnectedClients
getConnectedClients(st) == Cardinality({i \in Slots : hasHandle(st, i) /\ connected(st, i)})

(***************************************************************************)
(* NetworkServer: the datagram side.  A datagram is [from, size, line]:    *)
(* its sender, its length in bytes and the line it holds once trimmed.  An *)
(* operation works on a record u of the controller m, the datagrams        *)
(* waiting at the socket and the datagrams sent back.                      *)
(***************************************************************************)

Datagram(from, size, line) == [from |-> from, size |-> size, line |-> line]

RECURSIVE handleUDP_whilePending(_, _)
\* A datagram step that goes on while a datagram is waiting.
handleUDP_whilePending(u, level) ==
    IF u.packets = <<>> THEN u
    ELSE LET p  == Head(u.packets)
             u1 == [u EXCEPT !.packets = Tail(@)]
         IN  IF p.size > 0
             THEN LET out == processCommand(u1.m, p.line, level)
                  IN  handleUDP_whilePending(
                          [u1 EXCEPT !.m = out.m,
                                     !.out = Append(@, [to |-> p.from, what |-> out.resp])],
                          level)
             ELSE handleUDP_whilePending(u1, level)

\* NetworkServer::handleUDP
handleUDP(u, level) ==
    IF u.packets = <<>> THEN u
    ELSE LET p  == Head(u.packets)
             u1 == [u EXCEPT !.packets = Tail(@)]
         IN  IF p.size > 0
             THEN LET out == processCommand(u1.m, p.line, level)
                  IN  [u1 EXCEPT !.m = out.m,
                                 !.out = Append(@, [to |-> p.from, what |-> out.resp])]
             ELSE u1

(***************************************************************************)
(* WatchdogManager: the Supervisor's counters and its restart.  A watchdog *)
(* is the record w of its members, with restarts the reasons handed to     *)
(* ESP.restart(), in order.                                                *)
(***************************************************************************)

MAX_CONSECUTIVE_ERRORS == 10
ERROR_COOLDOWN_PERIOD == 5000
FEED_INTERVAL == 1000
RESET_DELAY_MS == 2000

\* WatchdogManager::WatchdogManager().
NewWatchdog ==
    [lastFeed |-> 0, errorCount |-> 0, consecutiveErrors |-> 0,
     lastError |-> "", lastErrorTime |-> 0, hwWatchdogEnabled |-> FALSE,
     watched |-> FALSE, restarts |-> <<>>]

\* WatchdogManager::begin at time now, with ENABLE_HW_WATCHDOG set as
\* Config.h sets it: the task is added to the hardware watchdog.
begin(w, now) ==
    [w EXCEPT !.hwWatchdogEnabled = TRUE, !.watched = TRUE, !.lastFeed = now]

\* ESP.restart() does not return: the process is gone once it was called.
running(w) == w.restarts = <<>>

\* WatchdogManager::restart.
restart(w, reason) == [w EXCEPT !.restarts = Append(@, reason)]

\* A feed that clears the consecutive errors without the cooldown test.
feed_noCooldown(w, currentMillis) ==
    IF currentMillis - w.lastFeed < FEED_INTERVAL THEN w
    ELSE [w EXCEPT !.lastFeed = currentMillis, !.consecutiveErrors = 0]

\* WatchdogManager::feed at time currentMillis.
feed(w, currentMillis) ==
    IF currentMillis - w.lastFeed < FEED_INTERVAL THEN w
    ELSE LET w1 == [w EXCEPT !.lastFeed = currentMillis]
         IN  IF /\ w1.consecutiveErrors > 0
                /\ currentMillis - w1.lastErrorTime > ERROR_COOLDOWN_PERIOD
             THEN [w1 EXCEPT !.consecutiveErrors = 0]
             ELSE w1

\* A registerError that restarts only above the threshold.
registerError_aboveThreshold(w, currentMillis) ==
    LET w1 == [w EXCEPT !.errorCount = @ + 1,
                        !.consecutiveErrors = @ + 1,
                        !.lastError = "Initial WiFi connection failed",
                        !.lastErrorTime = currentMillis]
    IN  IF w1.consecutiveErrors > MAX_CONSECUTIVE_ERRORS
        THEN restart(w1, "Maximum consecutive errors exceeded")
        ELSE w1

\* A registerError that keeps no total.
registerError_noTotal(w, currentMillis) ==
    LET w1 == [w EXCEPT !.consecutiveErrors = @ + 1,
                        !.lastError = "Initial WiFi connection failed",
                        !.lastErrorTime = currentMillis]
    IN  IF w1.consecutiveErrors >= MAX_CONSECUTIVE_ERRORS
        THEN restart(w1, "Maximum consecutive errors exceeded")
        ELSE w1

\* WatchdogManager::registerError at time currentMillis, with the message
\* its caller in setup() passes and AUTO_RESTART_ON_CRITICAL_ERROR set as
\* Config.h sets it.
registerError(w, currentMillis) ==
    LET w1 == [w EXCEPT !.errorCount = @ + 1,
                        !.consecutiveErrors = @ + 1,
                        !.lastError = "Initial WiFi connection failed",
                        !.lastErrorTime = currentMillis]
    IN  IF w1.consecutiveErrors >= MAX_CONSECUTIVE_ERRORS
        THEN restart(w1, "Maximum consecutive errors exceeded")
        ELSE w1

\* WatchdogManager::clearErrors.
clearErrors(w) == [w EXCEPT !.consecutiveErrors = 0]

\* WatchdogManager::shouldRestart.
shouldRestart(w) == w.consecutiveErrors >= MAX_CONSECUTIVE_ERRORS

\* WatchdogManager::suspend: the task leaves the hardware watchdog.
suspend(w) == IF w.hwWatchdogEnabled THEN [w EXCEPT !.watched = FALSE] ELSE w

\* WatchdogManager::resume at time now.
resume(w, now) ==
    IF w.hwWatchdogEnabled THEN [w EXCEPT !.watched = TRUE, !.lastFeed = now] ELSE w

(***************************************************************************)
(* TelegramNotifier, with ENABLE_TELEGRAM_NOTIFICATIONS set and begin()     *)
(* called with the watchdog.  An operation works on a record x of the      *)
(* watchdog w, the notifier's members n and the time now; n.calls lists    *)
(* the calls the operation makes to the watchdog and to the bot, each with *)
(* its time.  A call to the bot blocks for dt milliseconds.                *)
(***************************************************************************)

\* TelegramNotifier::TelegramNotifier
NewNotifier ==
    [pendingNotification |-> FALSE, pendingIP |-> "", connectionNotified |-> FALSE,
     lastNotifiedIP |-> "", calls |-> <<>>]

\* watchdog->suspend(), watchdog->resume() and a blocking call to the bot.
callSuspend(x) ==
    [x EXCEPT !.w = suspend(@), !.n.calls = Append(@, [op |-> "suspend", at |-> x.now])]

callResume(x) ==
    [x EXCEPT !.w = resume(@, x.now), !.n.calls = Append(@, [op |-> "resume", at |-> x.now])]

botCall(x, what, dt) ==
    [x EXCEPT !.n.calls = Append(@, [op |-> what, at |-> x.now]), !.now = @ + dt]

\* TelegramNotifier::queueIPNotification
queueIPNotification(n, ipAddress) ==
    IF n.connectionNotified /\ n.lastNotifiedIP = ipAddress THEN n
    ELSE [n EXCEPT !.pendingNotification = TRUE, !.pendingIP = ipAddress]

\* A sendIPAddress that gives up on a failed send without the resume.
sendIPAddress_leavesOnFailure(x, ipAddress, ok, dt) ==
    IF x.n.connectionNotified /\ x.n.lastNotifiedIP = ipAddress THEN x
    ELSE LET s == botCall(callSuspend(x), "sendMessage", dt)
         IN  IF ok
             THEN [callResume(s) EXCEPT !.n.connectionNotified = TRUE,
                                        !.n.lastNotifiedIP = ipAddress]
             ELSE s

\* TelegramNotifier::sendIPAddress; ok is what bot->sendMessage returns.
sendIPAddress(x, ipAddress, ok, dt) ==
    IF x.n.connectionNotified /\ x.n.lastNotifiedIP = ipAddress THEN x
    ELSE LET s == callResume(botCall(callSuspend(x), "sendMessage", dt))
         IN  IF ok
             THEN [s EXCEPT !.n.connectionNotified = TRUE, !.n.lastNotifiedIP = ipAddress]
             ELSE s

\* TelegramNotifier::sendPendingNotification
sendPendingNotification(x, ok, dt) ==
    IF ~x.n.pendingNotification THEN x
    ELSE [sendIPAddress(x, x.n.pendingIP, ok, dt) EXCEPT !.n.pendingNotification = FALSE,
                                                         !.n.pendingIP = ""]

RECURSIVE handleNewMessages(_, _, _)
\* TelegramNotifier::handleNewMessages on the texts of the new messages: a
\* command of the bot is answered, any other text is not.
handleNewMessages(x, texts, dt) ==
    IF texts = <<>> THEN x
    ELSE handleNewMessages(IF Head(texts) \in {"/start", "/status", "/ip", "/help"}
                           THEN botCall(x, "sendMessage", dt)
                           ELSE x,
                           Tail(texts), dt)

RECURSIVE getUpdatesLoop(_, _, _)
\* TelegramNotifier::loop, the calls of bot->getUpdates; updates lists what
\* the calls return one after the other, nothing once it is used up.
getUpdatesLoop(x, updates, dt) ==
    LET x1 == botCall(x, "getUpdates", dt)
    IN  IF updates = <<>> \/ Head(updates) = <<>> THEN x1
        ELSE getUpdatesLoop(handleNewMessages(x1, Head(updates), dt), Tail(updates), dt)

\* TelegramNotifier::loop; due tells whether TELEGRAM_CHECK_INTERVAL is over.
telegramLoop(x, due, updates, ok, dt) ==
    LET x1 == [x EXCEPT !.w = feed(@, x.now)]
        x2 == IF x1.n.pendingNotification THEN sendPendingNotification(x1, ok, dt) ELSE x1
    IN  IF due THEN callResume(getUpdatesLoop(callSuspend(x2), updates, dt)) ELSE x2

\* TelegramNotifier::sendMessage
sendMessage(x, dt) == callResume(botCall(callSuspend(x), "sendMessage", dt))

(***************************************************************************)
(* State                                                                   *)
(***************************************************************************)

VARIABLES
    pinStates,          \* PinController::_pinStates
    pinToPWMChannel,    \* PinController::_pinToPWMChannel
    nextPWMChannel,     \* PinController::_nextPWMChannel
    hwMode,             \* per pin, the mode of the last pinMode call
    last,               \* the last operation: what was called, on which pin, its outcome
    response,           \* the response the last command wrote to its channel
    restartRequested,   \* main.cpp: restartRequested
    poolCalls,          \* the setPWM calls of the pool scenario, in order
    tcpClients,         \* NetworkServer::_tcpClients
    conn,               \* each stream connection's status
    backlog,            \* the connections waiting at NetworkServer::_tcpServer
    inbox,              \* per connection, the lines sent and not yet read
    sent,               \* what the last handleTCPClients (and handleUDP) wrote, in order
    packets,            \* the datagrams waiting at NetworkServer::_udp
    watchdog,           \* main.cpp: watchdogManager
    clock,              \* what millis() returns
    restartTime,        \* main.cpp: restartTime
    phase,              \* "setup" until setup() has returned, then "loop"
    networkServer,      \* main.cpp: networkServer is not nullptr
    errorsSpaced,       \* every registerError so far came more than the cooldown after the one before
    failStreak,         \* the valid commands that failed in execution, in a row, up to now
    steps,              \* the steps of loop() taken in the pass under way, in order
    notifier            \* the TelegramNotifier's members and the calls of its last operation

netVars == <<tcpClients, conn, backlog, inbox, sent, packets>>

supVars == <<watchdog, clock, restartTime, phase, networkServer, errorsSpaced,
            failStreak, steps, notifier>>

vars == <<pinStates, pinToPWMChannel, nextPWMChannel, hwMode, last, response,
          restartRequested, poolCalls, netVars, supVars>>

\* The Pin State Store proper.
store == <<pinStates, pinToPWMChannel, nextPWMChannel>>

AllSafePins == {SAFE_PINS[i] : i \in 1..SAFE_PIN_COUNT}

\* The controller and the hardware as one record, with an empty call log:
\* what an operation starts from.
Cur ==
    [pinStates |-> pinStates, pinToPWMChannel |-> pinToPWMChannel,
     nextPWMChannel |-> nextPWMChannel, hwMode |-> hwMode, hwCalls |-> <<>>]

\* The same controller and hardware, the call log emptied.
Quiet(m) == [m EXCEPT !.hwCalls = <<>>]

\* The state an operation leaves behind.
Becomes(m) ==
    /\ pinStates' = m.pinStates
    /\ pinToPWMChannel' = m.pinToPWMChannel
    /\ nextPWMChannel' = m.nextPWMChannel
    /\ hwMode' = m.hwMode

Called(op, pin, ok) == [op |-> op, pin |-> pin, ok |-> ok]

\* PinController::PinController() and the globals of main.cpp before setup().
Init ==
    /\ pinStates = EmptyMap
    /\ pinToPWMChannel = EmptyMap
    /\ nextPWMChannel = 0
    /\ hwMode = [p \in AllSafePins |-> "NONE"]
    /\ last = Called("none", -1, TRUE)
    /\ response = NoResponse
    /\ restartRequested = FALSE
    /\ poolCalls = <<>>
    /\ tcpClients = [i \in Slots |-> 0]
    /\ conn = [c \in Conns |-> "unused"]
    /\ backlog = <<>>
    /\ inbox = [c \in Conns |-> <<>>]
    /\ sent = <<>>
    /\ packets = <<>>
    /\ watchdog = NewWatchdog
    /\ clock = 0
    /\ restartTime = 0
    /\ phase = "setup"
    /\ networkServer = FALSE
    /\ errorsSpaced = TRUE
    /\ failStreak = 0
    /\ steps = <<>>
    /\ notifier = NewNotifier

(***************************************************************************)
(* Direct calls of the PinController operations (as the HTTP handlers of   *)
(* WebServer.cpp make them, with whatever integers the request carries).   *)
(***************************************************************************)

CallSetDigital(pin, value) ==
    LET r == setDigital(Cur, pin, value)
    IN  /\ Becomes(r.m)
        /\ last' = Called("setDigital", pin, r.ret)
        /\ UNCHANGED <<response, restartRequested, poolCalls, supVars, netVars>>

CallGetDigital(pin, level) ==
    LET r == getDigital(Cur, pin, level)
    IN  /\ Becomes(r.m)
        /\ last' = Called("getDigital", pin, r.ret >= 0)
        /\ UNCHANGED <<response, restartRequested, poolCalls, supVars, netVars>>

CallToggle(pin, level) ==
    LET r == toggle(Cur, pin, level)
    IN  /\ Becomes(r.m)
        /\ last' = Called("toggle", pin, r.ret)
        /\ UNCHANGED <<response, restartRequested, poolCalls, supVars, netVars>>

CallSetPWM(pin, value) ==
    LET r == setPWM(Cur, pin, value)
    IN  /\ Becomes(r.m)
        /\ last' = Called("setPWM", pin, r.ret)
        /\ UNCHANGED <<response, restartRequested, poolCalls, supVars, netVars>>

CallResetAllPins ==
    LET r == resetAllPins(Cur)
    IN  /\ Becomes(r.m)
        /\ last' = Called("resetAllPins", -1, r.ret)
        /\ UNCHANGED <<response, restartRequested, poolCalls, supVars, netVars>>

Next ==
    \/ \E pin \in PinArgs, value \in DigitalArgs : CallSetDigital(pin, value)
    \/ \E pin \in PinArgs, level \in Levels : CallGetDigital(pin, level)
    \/ \E pin \in PinArgs, level \in Levels : CallToggle(pin, level)
    \/ \E pin \in PinArgs, value \in PwmArgs : CallSetPWM(pin, value)
    \/ CallResetAllPins

Spec == Init /\ [][Next]_vars

(***************************************************************************)
(* The pool scenario: setPWM with an in-range value on one allowed pin     *)
(* after another, each pin once.                                           *)
(***************************************************************************)

\* The value the n-th call writes.
PoolValue(n) == (15 * n) % 256

\* The position in SAFE_PINS of the pin the last call addressed.
PoolLastIndex ==
    CHOOSE i \in 1..SAFE_PIN_COUNT : SAFE_PINS[i] = poolCalls[Len(poolCalls)].pin

PoolSetPWM(pin) ==
    LET value == PoolValue(Len(poolCalls) + 1)
        r     == setPWM(Cur, pin, value)
    IN  /\ Becomes(r.m)
        /\ poolCalls' = Append(poolCalls,
               [pin |-> pin, value |-> value, ok |-> r.ret,
                channel |-> IF r.ret THEN r.m.pinToPWMChannel[pin] ELSE -1])
        /\ last' = Called("setPWM", pin, r.ret)
        /\ UNCHANGED <<response, restartRequested, netVars, supVars>>

\* The first call is on any allowed pin.
PoolSetPWMStart(pin) ==
    /\ poolCalls = <<>>
    /\ PoolSetPWM(pin)

\* Each later call is on the next pin of SAFE_PINS, going round, until every
\* pin has been called once.
PoolSetPWMNext ==
    /\ poolCalls # <<>>
    /\ Len(poolCalls) < SAFE_PIN_COUNT
    /\ PoolSetPWM(SAFE_PINS[(PoolLastIndex % SAFE_PIN_COUNT) + 1])

NextPool ==
    \/ \E pin \in AllSafePins : PoolSetPWMStart(pin)
    \/ PoolSetPWMNext

SpecPool == Init /\ [][NextPool]_vars

(***************************************************************************)
(* Commands: a line handed to NetworkServer::processCommand (from a stream *)
(* client or a datagram) or typed at the serial console.                   *)
(***************************************************************************)

CmdLines ==
    {TextLine("SET", <<Num(4), Num(1)>>),
     TextLine("set", <<Num(4), Num(0)>>),
     TextLine("GET", <<Num(4)>>),
     TextLine("TOGGLE", <<Num(4)>>),
     TextLine("PWM", <<Num(4), Num(255)>>),
     TextLine("GET", <<Num(0)>>),
     TextLine("RESET_PINS", <<>>),
     TextLine("STATUS", <<>>),
     TextLine("RESET", <<>>),
     TextLine("foo", <<>>),
     JsonLine(TRUE, [cmd |-> "RESET_PINS"]),
     JsonLine(FALSE, [cmd |-> "GET"])}

NetCommand(line, level) ==
    LET out == processCommand(Cur, line, level)
    IN  /\ Becomes(out.m)
        /\ response' = out.resp
        /\ last' = Called("net", out.resp.pin, out.resp.success)
        /\ UNCHANGED <<restartRequested, poolCalls, supVars, netVars>>

\* The serial handler hands a RESET to requestRestart of main.cpp.
SerialCommand(line, level) ==
    LET out == processSerialCommand(Cur, line, level)
    IN  /\ Becomes(out.m)
        /\ response' = out.resp
        /\ last' = Called("serial", out.resp.pin, out.resp.success)
        /\ restartRequested' = (restartRequested \/ out.restart)
        /\ restartTime' = IF out.restart THEN clock + RESET_DELAY_MS ELSE restartTime
        /\ UNCHANGED <<poolCalls, netVars, watchdog, clock, phase, networkServer, errorsSpaced, failStreak, steps, notifier>>

NextCmd ==
    \/ \E line \in CmdLines, level \in Levels : NetCommand(line, level)
    \/ \E line \in CmdLines, level \in Levels : SerialCommand(line, level)

SpecCmd == Init /\ [][NextCmd]_vars

(***************************************************************************)
(* Stream clients and the multiplexer's stream step.                       *)
(***************************************************************************)

NetLines == {TextLine("SET", <<Num(4), Num(1)>>), BlankLine}

\* The multiplexer's side of the network as one record.
CurNet ==
    [m |-> Cur, tcpClients |-> tcpClients, conn |-> conn, backlog |-> backlog,
     inbox |-> inbox, sent |-> <<>>]

RECURSIVE SumLen(_, _)
SumLen(f, S) ==
    IF S = {} THEN 0
    ELSE LET x == CHOOSE y \in S : TRUE
         IN  Len(f[x]) + SumLen(f, S \ {x})

\* The lines sent and not yet read, over all connections.
Unread == SumLen(inbox, Conns)

\* A client opens a connection to the stream port.
ClientConnect ==
    /\ \E c \in Conns : conn[c] = "unused"
    /\ LET c == CHOOSE x \in Conns : conn[x] = "unused" /\ \A y \in 1..(x - 1) : conn[y] # "unused"
       IN  /\ conn' = [conn EXCEPT ![c] = "pending"]
           /\ backlog' = Append(backlog, c)
    /\ UNCHANGED <<store, hwMode, last, response, restartRequested, poolCalls, supVars, tcpClients, inbox, sent, packets>>

\* A client writes a line on its connection.
ClientSend(c, line) ==
    /\ conn[c] \in {"pending", "open"}
    /\ Unread < MaxUnread
    /\ inbox' = [inbox EXCEPT ![c] = Append(@, line)]
    /\ UNCHANGED <<store, hwMode, last, response, restartRequested, poolCalls, supVars, tcpClients, conn, backlog, sent, packets>>

\* A client closes its connection.
ClientClose(c) ==
    /\ conn[c] \in {"pending", "open"}
    /\ conn' = [conn EXCEPT ![c] = IF @ = "pending" THEN "pendingClosed" ELSE "peerClosed"]
    /\ UNCHANGED <<store, hwMode, last, response, restartRequested, poolCalls, supVars, tcpClients, backlog, inbox, sent, packets>>

\* The state a call of NetworkServer::loop with result r leaves behind.
NetworkBecomes(r) ==
    /\ Becomes(r.net.m)
    /\ tcpClients' = r.net.tcpClients
    /\ conn' = r.net.conn
    /\ backlog' = r.net.backlog
    /\ inbox' = r.net.inbox
    /\ sent' = r.net.sent
    /\ packets' = r.packets

\* One call of NetworkServer::handleTCPClients.
HandleTCPClients(level) ==
    /\ NetworkBecomes([net |-> handleTCPClients(CurNet, level), packets |-> packets])
    /\ UNCHANGED <<last, response, restartRequested, poolCalls, supVars>>

\* Connections come and go and the multiplexer runs; no client sends a line.
NextNet ==
    \/ ClientConnect
    \/ \E c \in Conns : ClientClose(c)
    \/ \E level \in Levels : HandleTCPClients(level)

SpecNet == Init /\ [][NextNet]_vars

\* The same, with clients that send lines.
NextStream ==
    \/ ClientConnect
    \/ \E c \in Conns, line \in NetLines : ClientSend(c, line)
    \/ \E c \in Conns : ClientClose(c)
    \/ \E level \in Levels : HandleTCPClients(level)

SpecStream == Init /\ [][NextStream]_vars

(***************************************************************************)
(* NetworkServer::loop: the stream step, then the datagram step.  Clients  *)
(* and datagram senders queue several commands between two calls.          *)
(***************************************************************************)

MaxQueued == 2
MuxClients == 2

\* The addresses datagrams come from, apart from the stream connections.
Peers == {MaxConns + 1, MaxConns + 2}

StreamLine == TextLine("SET", <<Num(4), Num(1)>>)
DatagramLine == TextLine("SET", <<Num(4), Num(0)>>)

\* The end of NetworkServer::loop: the network t after the stream step and
\* the datagram side u after the datagram step, as one result.
loopResult(t, u) ==
    [net |-> [t EXCEPT !.m = u.m, !.sent = t.sent \o u.out], packets |-> u.packets]

\* handleUDP() called after the stream step has left the network t.
thenUDP(t, pk, level) ==
    loopResult(t, handleUDP([m |-> t.m, packets |-> pk, out |-> <<>>], level))

\* handleTCPClients() called after the datagram step has left u.
thenTCP(st, u, level) ==
    LET t == handleTCPClients([st EXCEPT !.m = u.m], level)
    IN  [net |-> [t EXCEPT !.sent = u.out \o t.sent], packets |-> u.packets]

\* A loop that takes the datagram step first.
networkLoop_datagramFirst(st, pk, level) ==
    thenTCP(st, handleUDP([m |-> st.m, packets |-> pk, out |-> <<>>], level), level)

\* NetworkServer::loop on the network st and the waiting datagrams pk.
networkLoop(st, pk, level) == thenUDP(handleTCPClients(st, level), pk, level)

\* One of the first MuxClients connections is opened.
MuxConnect ==
    /\ conn[MuxClients] = "unused"
    /\ ClientConnect

\* A client queues a command on its connection.
MuxSend(c) ==
    /\ conn[c] \in {"pending", "open"}
    /\ Len(inbox[c]) < MaxQueued
    /\ inbox' = [inbox EXCEPT ![c] = Append(@, StreamLine)]
    /\ UNCHANGED <<store, hwMode, last, response, restartRequested, poolCalls, supVars, tcpClients, conn, backlog, sent, packets>>

\* A datagram arrives at the socket.
DatagramArrives(from) ==
    /\ Len(packets) < MaxQueued
    /\ packets' = Append(packets, Datagram(from, 1, DatagramLine))
    /\ UNCHANGED <<store, hwMode, last, response, restartRequested, poolCalls, supVars, tcpClients, conn, backlog, inbox, sent>>

\* The result r shows a failure answered or a connection turned away.
Failed(r) ==
    \E k \in 1..Len(r.net.sent) :
        \/ r.net.sent[k].what = Text("ERROR: Server full")
        \/ /\ r.net.sent[k].what.kind = "envelope"
           /\ ~r.net.sent[k].what.success

\* A call of NetworkServer::loop that registers an error with the watchdog
\* when it answers a failure or turns a connection away.
NetworkLoop_registersFailures(level) ==
    /\ NetworkBecomes(networkLoop(CurNet, packets, level))
    /\ watchdog' = IF Failed(networkLoop(CurNet, packets, level))
                   THEN registerError(watchdog, clock)
                   ELSE watchdog
    /\ UNCHANGED <<last, response, restartRequested, poolCalls, clock, restartTime,
                   phase, networkServer, errorsSpaced, failStreak, steps, notifier>>

\* One call of NetworkServer::loop.
NetworkLoop(level) ==
    /\ NetworkBecomes(networkLoop(CurNet, packets, level))
    /\ UNCHANGED <<last, response, restartRequested, poolCalls, supVars>>

NextMux ==
    \/ MuxConnect
    \/ \E c \in Conns : MuxSend(c)
    \/ \E c \in Conns : ClientClose(c)
    \/ \E from \in Peers : DatagramArrives(from)
    \/ NetworkLoop(0)

SpecMux == Init /\ [][NextMux]_vars

(***************************************************************************)
(* The scheduler of main.cpp: setup(), then loop() pass after pass.  A     *)
(* pass reads at most one command: a line from a stream client, a          *)
(* datagram, or a line typed at the serial console.                        *)
(***************************************************************************)

MaxUptime == 6000
MaxErrors == 12
PassTimes == {FEED_INTERVAL, RESET_DELAY_MS}
Channels == {"stream", "datagram", "serial"}
NoInput == [channel |-> "none", line |-> BlankLine]

LoopLines ==
    {TextLine("RESET", <<>>),
     JsonLine(TRUE, [cmd |-> "RESET"]),
     TextLine("SET", <<Num(4), Num(1)>>),
     TextLine("foo", <<>>)}

LoopInputs ==
    {NoInput} \cup {[channel |-> ch, line |-> l] : ch \in Channels, l \in LoopLines}

\* requestRestart of main.cpp, called at time now: the flag and the time.
requestRestart(now, delayMs) == [restartRequested |-> TRUE, restartTime |-> now + delayMs]

\* A pending-restart test that does not look at the flag.
restartDue_ignoresFlag(requested, now, time) == now >= time

\* The pending-restart test of loop().
restartDue(requested, now, time) == requested /\ now >= time

\* The two restart checks that end a pass of loop().
restartChecks(w, requested, now, time) ==
    IF restartDue(requested, now, time) THEN restart(w, "User requested restart")
    ELSE IF shouldRestart(w) THEN restart(w, "Automatic restart due to errors")
    ELSE w

\* setup(): the watchdog begins, and an initial WiFi failure is registered.
Setup(wifiConnected) ==
    /\ phase = "setup"
    /\ LET w0 == begin(watchdog, clock)
       IN  watchdog' = IF wifiConnected THEN w0 ELSE registerError(w0, clock)
    /\ networkServer' = wifiConnected
    /\ phase' = "loop"
    /\ UNCHANGED <<store, hwMode, last, response, restartRequested, poolCalls,
                   netVars, clock, restartTime, errorsSpaced, failStreak, steps, notifier>>

\* One pass of loop() that takes dt milliseconds.
LoopPass(wifiConnected, input, level, dt) ==
    /\ phase = "loop"
    /\ running(watchdog)
    /\ clock + dt <= MaxUptime
    /\ failStreak < MaxErrors
    /\ LET w1      == feed(watchdog, clock)
           starts  == wifiConnected /\ ~networkServer
           w2      == IF starts THEN clearErrors(w1) ELSE w1
           serving == wifiConnected
           viaNet  == serving /\ input.channel \in {"stream", "datagram"}
           viaSer  == input.channel = "serial"
           out     == IF viaNet THEN processCommand(Cur, input.line, level)
                      ELSE IF viaSer THEN processSerialCommand(Cur, input.line, level)
                      ELSE Outcome(Cur, NoResponse, FALSE)
           req     == IF viaSer /\ out.restart
                      THEN requestRestart(clock, RESET_DELAY_MS)
                      ELSE [restartRequested |-> restartRequested,
                            restartTime |-> restartTime]
       IN  /\ networkServer' = wifiConnected
           /\ Becomes(out.m)
           /\ response' = out.resp
           /\ last' = Called(IF viaNet \/ viaSer THEN input.channel ELSE "none",
                             out.resp.pin, out.resp.success)
           /\ restartRequested' = req.restartRequested
           /\ restartTime' = req.restartTime
           /\ watchdog' = restartChecks(w2, req.restartRequested, clock, req.restartTime)
           /\ clock' = clock + dt
           /\ failStreak' = IF ~(viaNet \/ viaSer) \/ parse(input.line).type = "INVALID"
                            THEN failStreak
                            ELSE IF out.resp.success THEN 0 ELSE failStreak + 1
    /\ UNCHANGED <<poolCalls, netVars, phase, errorsSpaced, steps, notifier>>

NextLoop ==
    \/ \E wifiConnected \in BOOLEAN : Setup(wifiConnected)
    \/ \E wifiConnected \in BOOLEAN, input \in LoopInputs, level \in Levels,
          dt \in PassTimes : LoopPass(wifiConnected, input, level, dt)

SpecLoop == Init /\ [][NextLoop]_vars

\* The scheduler with a stream client that uses up the PWM channels and
\* goes on asking for one, a command in each pass, the passes a tenth of
\* FEED_INTERVAL long.
ExhaustLines ==
    {TextLine("PWM", <<Num(4), Num(255)>>),
     TextLine("SET", <<Num(4), Num(1)>>),
     TextLine("PWM", <<Num(5), Num(255)>>)}

NextExhaust ==
    \/ Setup(TRUE)
    \/ \E line \in ExhaustLines :
          LoopPass(TRUE, [channel |-> "stream", line |-> line], 0, FEED_INTERVAL \div 10)

SpecExhaust == Init /\ [][NextExhaust]_vars

\* setup() without WiFi, then a server whose first client sends lines that
\* do not parse and whose clients connect until it is full.
InvalidLine == TextLine("foo", <<>>)

NextRefuse ==
    \/ Setup(FALSE)
    \/ phase = "loop" /\ ClientConnect
    \/ phase = "loop" /\ ClientSend(1, InvalidLine)
    \/ \E c \in Conns : phase = "loop" /\ ClientClose(c)
    \/ phase = "loop" /\ NetworkLoop(0)

SpecRefuse == Init /\ [][NextRefuse]_vars

(***************************************************************************)
(* A pass of loop() step by step: the feed, the network server's loop, the *)
(* serial console, the status LED and heartbeat, the restart checks.  Time *)
(* passes while the LED and the heartbeat are handled.                     *)
(***************************************************************************)

\* An order of the steps with the restart checks right after the feed.
nextStep_checkFirst(step) ==
    CASE step = "loop"    -> "restart"
      [] step = "restart" -> "network"
      [] step = "network" -> "serial"
      [] step = "serial"  -> "led"
      [] step = "led"     -> "loop"

\* The step of loop() that follows a step; "loop" is the top of the pass.
nextStep(step) ==
    CASE step = "loop"    -> "network"
      [] step = "network" -> "serial"
      [] step = "serial"  -> "led"
      [] step = "led"     -> "restart"
      [] step = "restart" -> "loop"

\* watchdogManager.feed(), wifiManager.loop() and the start of the server.
FeedStep(wifiConnected) ==
    /\ phase = "loop"
    /\ running(watchdog)
    /\ LET w1 == feed(watchdog, clock)
       IN  watchdog' = IF wifiConnected /\ ~networkServer THEN clearErrors(w1) ELSE w1
    /\ networkServer' = wifiConnected
    /\ phase' = nextStep(phase)
    /\ steps' = <<"feed">>
    /\ UNCHANGED <<store, hwMode, last, response, restartRequested, poolCalls,
                   netVars, clock, restartTime, errorsSpaced, failStreak, notifier>>

\* networkServer->loop() with at most one command to read.
NetworkStep(input) ==
    /\ phase = "network"
    /\ LET viaNet == networkServer /\ input.channel \in {"stream", "datagram"}
           out    == IF viaNet THEN processCommand(Cur, input.line, 0)
                     ELSE Outcome(Cur, response, FALSE)
       IN  /\ Becomes(out.m)
           /\ response' = out.resp
           /\ last' = IF viaNet THEN Called(input.channel, out.resp.pin, out.resp.success)
                      ELSE last
    /\ phase' = nextStep(phase)
    /\ steps' = Append(steps, "network")
    /\ UNCHANGED <<restartRequested, poolCalls, netVars, watchdog, clock, restartTime,
                   networkServer, errorsSpaced, failStreak, notifier>>

\* serialHandler->processSerialCommands() with at most one line to read.
SerialStep(input) ==
    /\ phase = "serial"
    /\ LET viaSer == input.channel = "serial"
           out    == IF viaSer THEN processSerialCommand(Cur, input.line, 0)
                     ELSE Outcome(Cur, response, FALSE)
           req    == IF out.restart THEN requestRestart(clock, RESET_DELAY_MS)
                     ELSE [restartRequested |-> restartRequested,
                           restartTime |-> restartTime]
       IN  /\ Becomes(out.m)
           /\ response' = out.resp
           /\ last' = IF viaSer THEN Called("serial", out.resp.pin, out.resp.success)
                      ELSE last
           /\ restartRequested' = req.restartRequested
           /\ restartTime' = req.restartTime
    /\ phase' = nextStep(phase)
    /\ steps' = Append(steps, "serial")
    /\ UNCHANGED <<poolCalls, netVars, watchdog, clock, networkServer, errorsSpaced,
                   failStreak, notifier>>

\* The status LED and the heartbeat, which take dt milliseconds.
LedStep(dt) ==
    /\ phase = "led"
    /\ clock + dt <= MaxUptime
    /\ clock' = clock + dt
    /\ phase' = nextStep(phase)
    /\ steps' = Append(steps, "led")
    /\ UNCHANGED <<store, hwMode, last, response, restartRequested, poolCalls,
                   netVars, watchdog, restartTime, networkServer, errorsSpaced, failStreak, notifier>>

\* The two restart checks.
RestartStep ==
    /\ phase = "restart"
    /\ watchdog' = restartChecks(watchdog, restartRequested, clock, restartTime)
    /\ phase' = nextStep(phase)
    /\ steps' = Append(steps, "restart")
    /\ UNCHANGED <<store, hwMode, last, response, restartRequested, poolCalls,
                   netVars, clock, restartTime, networkServer, errorsSpaced, failStreak, notifier>>

NextPass ==
    \/ \E wifiConnected \in BOOLEAN : Setup(wifiConnected)
    \/ \E wifiConnected \in BOOLEAN : FeedStep(wifiConnected)
    \/ \E input \in LoopInputs : NetworkStep(input)
    \/ \E input \in LoopInputs : SerialStep(input)
    \/ \E dt \in {0} \cup PassTimes : LedStep(dt)
    \/ RestartStep

SpecPass == Init /\ [][NextPass]_vars

(***************************************************************************)
(* The TelegramNotifier called from the scheduler after setup().           *)
(***************************************************************************)

Addresses == {"192.168.1.10", "192.168.1.11"}
Updates == {<<>>, <<<<"/start">>>>, <<<<"hello", "/help">>, <<"/ip">>>>}
BotCallTimes == {0, FEED_INTERVAL}

\* The notifier at the start of an operation.
CurNotifier == [w |-> watchdog, n |-> [notifier EXCEPT !.calls = <<>>], now |-> clock]

NotifierBecomes(x) ==
    /\ x.now <= MaxUptime
    /\ watchdog' = x.w
    /\ notifier' = x.n
    /\ clock' = x.now
    /\ UNCHANGED <<store, hwMode, last, response, restartRequested, poolCalls, netVars,
                   restartTime, phase, networkServer, errorsSpaced, failStreak, steps>>

QueueIPNotification(ipAddress) ==
    /\ phase = "loop"
    /\ NotifierBecomes([CurNotifier EXCEPT !.n = queueIPNotification(@, ipAddress)])

TelegramLoop(due, updates, ok, dt) ==
    /\ phase = "loop"
    /\ NotifierBecomes(telegramLoop(CurNotifier, due, updates, ok, dt))

SendMessage(dt) ==
    /\ phase = "loop"
    /\ NotifierBecomes(sendMessage(CurNotifier, dt))

NextNotify ==
    \/ Setup(TRUE)
    \/ \E ipAddress \in Addresses : QueueIPNotification(ipAddress)
    \/ \E due \in BOOLEAN, updates \in Updates, ok \in BOOLEAN, dt \in BotCallTimes :
           TelegramLoop(due, updates, ok, dt)
    \/ \E dt \in BotCallTimes : SendMessage(dt)

SpecNotify == Init /\ [][NextNotify]_vars

(***************************************************************************)
(* The Supervisor's operations called in any order, as its callers may:    *)
(* feed, registerError and clearErrors, and the end of a scheduler pass    *)
(* with its restart checks, after which time has passed.                   *)
(***************************************************************************)

MaxDelays == 10
Delays == {ERROR_COOLDOWN_PERIOD, ERROR_COOLDOWN_PERIOD + 1}

Feed ==
    /\ running(watchdog)
    /\ watchdog' = feed(watchdog, clock)
    /\ UNCHANGED <<store, hwMode, last, response, restartRequested, poolCalls,
                   netVars, clock, restartTime, phase, networkServer, errorsSpaced, failStreak, steps, notifier>>

\* The time since the error before, if there was one, exceeds the cooldown.
AfterCooldown(w, currentMillis) ==
    w.errorCount = 0 \/ currentMillis - w.lastErrorTime > ERROR_COOLDOWN_PERIOD

RegisterError ==
    /\ running(watchdog)
    /\ watchdog.errorCount < MaxErrors
    /\ watchdog' = registerError(watchdog, clock)
    /\ errorsSpaced' = (errorsSpaced /\ AfterCooldown(watchdog, clock))
    /\ UNCHANGED <<store, hwMode, last, response, restartRequested, poolCalls,
                   netVars, clock, restartTime, phase, networkServer, failStreak, steps, notifier>>

ClearErrors ==
    /\ running(watchdog)
    /\ watchdog' = clearErrors(watchdog)
    /\ UNCHANGED <<store, hwMode, last, response, restartRequested, poolCalls,
                   netVars, clock, restartTime, phase, networkServer, errorsSpaced, failStreak, steps, notifier>>

EndOfPass(dt) ==
    /\ running(watchdog)
    /\ clock + dt <= MaxDelays * (ERROR_COOLDOWN_PERIOD + 1)
    /\ watchdog' = restartChecks(watchdog, restartRequested, clock, restartTime)
    /\ clock' = clock + dt
    /\ UNCHANGED <<store, hwMode, last, response, restartRequested, poolCalls,
                   netVars, restartTime, phase, networkServer, errorsSpaced, failStreak, steps, notifier>>

NextWatchdog ==
    \/ Feed
    \/ RegisterError
    \/ ClearErrors
    \/ \E dt \in Delays : EndOfPass(dt)

SpecWatchdog == Init /\ [][NextWatchdog]_vars

(***************************************************************************)
(* WebServer: the HTTP handlers, which the asynchronous server calls from  *)
(* its own task, next to the commands the scheduler executes.  A request   *)
(* carries its path and the integers of its pin and value parameters.      *)
(***************************************************************************)

Request(path, pin, value) == [path |-> path, pin |-> pin, value |-> value]

HttpRequests ==
    {Request("/api/pin/set", 4, 1), Request("/api/pin/set", 0, 1),
     Request("/api/pin/get", 4, 0), Request("/api/pin/toggle", 4, 0),
     Request("/api/pin/pwm", 4, 255), Request("/api/pin/pwm", 4, 256),
     Request("/api/reset", -1, 0), Request("/api/status", -1, 0)}

\* The lines the scheduler executes meanwhile.
HttpLines == {TextLine("SET", <<Num(4), Num(0)>>), TextLine("GET", <<Num(4)>>)}

Answer(m, code) == [m |-> m, code |-> code]

\* WebServer::handleSetPin
handleSetPin(m, req) ==
    LET r == setDigital(m, req.pin, req.value)
    IN  Answer(r.m, IF r.ret THEN 200 ELSE 400)

\* WebServer::handleGetPin
handleGetPin(m, req, level) ==
    IF ~isPinConfigured(m, req.pin) THEN Answer(m, 400)
    ELSE IF getPinMode(m, req.pin) = "PWM_OUTPUT" THEN Answer(m, 200)
    ELSE Answer(getDigital(m, req.pin, level).m, 200)

\* WebServer::handleTogglePin
handleTogglePin(m, req, level) ==
    LET r == toggle(m, req.pin, level)
    IN  IF r.ret THEN Answer(getDigital(r.m, req.pin, level).m, 200)
        ELSE Answer(r.m, 400)

\* WebServer::handleSetPWM
handleSetPWM(m, req) ==
    IF req.value < 0 \/ req.value > 255 THEN Answer(m, 400)
    ELSE LET r == setPWM(m, req.pin, req.value)
         IN  Answer(r.m, IF r.ret THEN 200 ELSE 400)

\* WebServer::handleResetPins
handleResetPins(m) ==
    LET r == resetAllPins(m)
    IN  Answer(r.m, IF r.ret THEN 200 ELSE 500)

\* The routes of WebServer::setupRoutes.
handleRequest(m, req, level) ==
    CASE req.path = "/api/pin/set"    -> handleSetPin(m, req)
      [] req.path = "/api/pin/get"    -> handleGetPin(m, req, level)
      [] req.path = "/api/pin/toggle" -> handleTogglePin(m, req, level)
      [] req.path = "/api/pin/pwm"    -> handleSetPWM(m, req)
      [] req.path = "/api/reset"      -> handleResetPins(m)
      [] OTHER                        -> Answer(m, 200)

HttpRequest(req, level) ==
    LET a == handleRequest(Cur, req, level)
    IN  /\ Becomes(a.m)
        /\ last' = Called("http", req.pin, a.code = 200)
        /\ UNCHANGED <<response, restartRequested, poolCalls, netVars, supVars>>

NextHttp ==
    \/ \E req \in HttpRequests, level \in Levels : HttpRequest(req, level)
    \/ \E line \in HttpLines, level \in Levels : NetCommand(line, level)

SpecHttp == Init /\ [][NextHttp]_vars

(***************************************************************************)
(* The store scenario: the PinController operations on the pins in play,   *)
(* in any order, so that pins change between the two output modes, the     *)
(* channel counter runs up to its limit and resetAllPins starts over.      *)
(***************************************************************************)

NextStore ==
    \/ \E pin \in PinsInPlay, value \in DigitalArgs : CallSetDigital(pin, value)
    \/ \E pin \in PinsInPlay, level \in Levels : CallGetDigital(pin, level)
    \/ \E pin \in PinsInPlay, level \in Levels : CallToggle(pin, level)
    \/ \E pin \in PinsInPlay, value \in PwmArgs : CallSetPWM(pin, value)
    \/ CallResetAllPins

SpecStore == Init /\ [][NextStore]_vars

(***************************************************************************)
(* Properties.  A property that speaks of what an operation does "in every *)
(* reachable state" applies the operation's definition to the current      *)
(* state, for every argument of a probe set, and states the result.        *)
(***************************************************************************)

\* The Pin State Store part of a controller record.
StoreOf(m) == <<m.pinStates, m.pinToPWMChannel, m.nextPWMChannel>>

\* The line, executed in the current state on the network and on the serial
\* channel with the given level on the pin's input, reports failure and
\* leaves the store as it was.
RefusedLeavingStore(line, level) ==
    /\ LET out == processCommand(Cur, line, level)
       IN  out.resp.success = FALSE /\ StoreOf(out.m) = StoreOf(Cur)
    /\ LET out == processSerialCommand(Cur, line, level)
       IN  out.resp.success = FALSE /\ StoreOf(out.m) = StoreOf(Cur)

\* C1: for every pin outside SAFE_PINS and in every reachable state, SET, GET,
\* TOGGLE and PWM addressed to that pin, through the parser on the network or
\* serial channel or by a direct call of setDigital, getDigital, toggle or
\* setPWM, report failure (success = false, false or -1) and leave the pin
\* records, the pin-to-channel map and the next-channel counter as they were.
C1_BadPinRejected ==
    /\ \A p \in BadPinProbe :
        /\ \A v \in {0, 1} :
              LET r == setDigital(Cur, p, v)
              IN  r.ret = FALSE /\ StoreOf(r.m) = StoreOf(Cur)
        /\ \A v \in {0, 255} :
              LET r == setPWM(Cur, p, v)
              IN  r.ret = FALSE /\ StoreOf(r.m) = StoreOf(Cur)
        /\ \A level \in Levels :
              /\ LET r == getDigital(Cur, p, level)
                 IN  r.ret = -1 /\ StoreOf(r.m) = StoreOf(Cur)
              /\ LET r == toggle(Cur, p, level)
                 IN  r.ret = FALSE /\ StoreOf(r.m) = StoreOf(Cur)
    /\ \A p \in BadPinLineProbe :
        /\ RefusedLeavingStore(TextLine("SET", <<Num(p), Num(1)>>), 0)
        /\ RefusedLeavingStore(TextLine("pwm", <<Num(p), Num(255)>>), 0)
        /\ RefusedLeavingStore(JsonLine(TRUE, [cmd |-> "set", pin |-> Num(p), value |-> Num(0)]), 0)
        /\ RefusedLeavingStore(JsonLine(TRUE, [cmd |-> "PWM", pin |-> Num(p), value |-> Num(0)]), 0)
        /\ \A level \in Levels :
              /\ RefusedLeavingStore(TextLine("GET", <<Num(p)>>), level)
              /\ RefusedLeavingStore(TextLine("toggle", <<Num(p)>>), level)
              /\ RefusedLeavingStore(JsonLine(TRUE, [cmd |-> "get", pin |-> Num(p)]), level)
              /\ RefusedLeavingStore(JsonLine(TRUE, [cmd |-> "TOGGLE", pin |-> Num(p)]), level)

\* C1 witness: a call on a pin outside SAFE_PINS has just failed while the
\* store held a PWM record and a digital record.
C1_Witness ==
    /\ last.pin \in BadPins
    /\ last.op \in {"setDigital", "setPWM", "toggle", "getDigital"}
    /\ ~last.ok
    /\ \E p, q \in DOMAIN pinStates :
          pinStates[p].mode = "PWM_OUTPUT" /\ pinStates[q].mode = "DIGITAL_OUTPUT"

\* The pins whose record is an initialized PWM output.
PwmPins(m) ==
    {p \in DOMAIN m.pinStates :
        m.pinStates[p].isInitialized /\ m.pinStates[p].mode = "PWM_OUTPUT"}

\* The channels ledcSetup was called for in a call log.
ChannelsSetUp(calls) ==
    {calls[i][2] : i \in {k \in 1..Len(calls) : calls[k][1] = "ledcSetup"}}

\* C2: in every reachable state two distinct pins in PwmOutput mode are bound
\* to different channels, every bound channel index is in 0..15, and a channel
\* the allocator hands out is never one still bound to a pin in PwmOutput mode.
C2_ChannelsUnique ==
    /\ \A p \in PwmPins(Cur) : p \in DOMAIN pinToPWMChannel
    /\ \A p, q \in PwmPins(Cur) : p # q => pinToPWMChannel[p] # pinToPWMChannel[q]
    /\ \A p \in DOMAIN pinToPWMChannel : pinToPWMChannel[p] \in 0..(PWM_CHANNEL_LIMIT - 1)
    /\ nextPWMChannel \in 0..PWM_CHANNEL_LIMIT
    /\ \A p \in PinProbe, v \in PwmProbe :
          LET r == setPWM(Cur, p, v)
          IN  \A c \in ChannelsSetUp(r.m.hwCalls) :
                 /\ c \in 0..(PWM_CHANNEL_LIMIT - 1)
                 /\ r.m.pinToPWMChannel[p] = c
                 /\ \A q \in PwmPins(Cur) : pinToPWMChannel[q] # c

\* C2 witness: two pins are PWM outputs after channels were given up (a pin
\* went PWM, digital, PWM again) and after a reset.
C2_Witness ==
    /\ Cardinality(PwmPins(Cur)) = 2
    /\ nextPWMChannel > 2
    /\ last.op = "setPWM" /\ last.ok

\* The pins a call log has a digitalRead of.
PinsRead(calls) ==
    {calls[i][2] : i \in {k \in 1..Len(calls) : calls[k][1] = "digitalRead"}}

\* C4: when setPWM fails because the channel pool is exhausted, the store
\* after the call is identical to the store before it: no record is created
\* or changed (the failing pin's included), the channel map and the
\* next-channel counter are unchanged.
C4_FailedSetPWMLeavesStore ==
    \A p \in PinProbe, v \in {0, 255} :
        LET r == setPWM(Cur, p, v)
        IN  ~r.ret => StoreOf(r.m) = StoreOf(Cur)

\* C5: after a successful SET p v, a GET p issued before any other operation
\* on p returns v from the cached record, with no hardware input read.  In
\* three parts: a successful setDigital(p, v) leaves p an initialized digital
\* output of value v; operations on another pin leave p's record alone; and
\* getDigital on an initialized digital output of value v returns v, makes no
\* hardware call and changes nothing.
C5_SetThenGet ==
    /\ \A p \in PinsInPlay, v \in {0, 1} :
          LET s == setDigital(Cur, p, v)
          IN  /\ s.ret
              /\ s.m.pinStates[p] =
                    [mode |-> "DIGITAL_OUTPUT", value |-> v, isInitialized |-> TRUE]
              /\ \A level \in Levels :
                    getDigital(Quiet(s.m), p, level) = [m |-> Quiet(s.m), ret |-> v]
    /\ \A p \in DOMAIN pinStates :
          (pinStates[p].isInitialized /\ pinStates[p].mode = "DIGITAL_OUTPUT") =>
             /\ \A level \in Levels :
                   getDigital(Cur, p, level) = [m |-> Cur, ret |-> pinStates[p].value]
             /\ \A q \in PinProbe \ {p} :
                   /\ \A v \in {0, 1} : setDigital(Cur, q, v).m.pinStates[p] = pinStates[p]
                   /\ \A v \in {0, 255} : setPWM(Cur, q, v).m.pinStates[p] = pinStates[p]
                   /\ \A level \in Levels :
                         /\ getDigital(Cur, q, level).m.pinStates[p] = pinStates[p]
                         /\ toggle(Cur, q, level).m.pinStates[p] = pinStates[p]

\* C5 witness: a GET on a pin that was a PWM output and was then set to 1
\* has just returned, and the pin is still configured as an output.
C5_Witness ==
    /\ last.op = "getDigital" /\ last.ok /\ last.pin \in PinsInPlay
    /\ last.pin \in DOMAIN pinStates
    /\ pinStates[last.pin] = [mode |-> "DIGITAL_OUTPUT", value |-> 1, isInitialized |-> TRUE]
    /\ last.pin \in DOMAIN pinToPWMChannel
    /\ hwMode[last.pin] = "OUTPUT"

\* C6: in every reachable state TOGGLE p gives the same store and the same
\* reported value as GET p (returning v) followed by SET p (1 - v): for the
\* direct calls, and for the commands on the network and the serial channel.
C6_ToggleIsGetThenSet ==
    \A p \in PinsInPlay, level \in Levels :
        /\ LET t == toggle(Cur, p, level)
               g == getDigital(Cur, p, level)
               s == setDigital(g.m, p, 1 - g.ret)
           IN  t.ret = s.ret /\ t.m = s.m
        /\ LET t == processCommand(Cur, TextLine("TOGGLE", <<Num(p)>>), level)
               g == processCommand(Cur, TextLine("GET", <<Num(p)>>), level)
               s == processCommand(Quiet(g.m),
                                   TextLine("SET", <<Num(p), Num(1 - g.resp.value)>>), level)
           IN  /\ g.resp.success /\ t.resp.success = s.resp.success
               /\ t.resp.value = s.resp.value
               /\ StoreOf(t.m) = StoreOf(s.m)
        /\ LET t == processSerialCommand(Cur, TextLine("TOGGLE", <<Num(p)>>), level)
               g == processSerialCommand(Cur, TextLine("GET", <<Num(p)>>), level)
               s == processSerialCommand(Quiet(g.m),
                                   TextLine("SET", <<Num(p), Num(1 - g.resp.value)>>), level)
           IN  /\ g.resp.success /\ t.resp.success = s.resp.success
               /\ t.resp.value = s.resp.value
               /\ StoreOf(t.m) = StoreOf(s.m)

\* C6 witness: a toggle has just succeeded on a pin that had been a PWM output.
C6_Witness ==
    /\ last.op = "toggle" /\ last.ok
    /\ last.pin \in DOMAIN pinToPWMChannel
    /\ pinStates[last.pin].mode = "DIGITAL_OUTPUT"

\* The value a pin has: the value of its record when it is configured, and
\* the level on the input otherwise.
PinValue(m, p, level) ==
    IF p \in DOMAIN m.pinStates /\ m.pinStates[p].isInitialized
    THEN m.pinStates[p].value
    ELSE level

\* Two TOGGLEs of pin p in a row; level is the level on the pin's input.
toggleTwice(m, p, level) ==
    LET t1 == toggle(m, p, level)
    IN  IF t1.ret THEN toggle(Quiet(t1.m), p, level) ELSE t1

\* C7 as claimed: from every reachable state (pin unconfigured, digital
\* output or PWM output) two TOGGLEs in a row return the pin to the value it
\* had before the first.
C7_ToggleTwiceRestores ==
    \A p \in PinsInPlay, level \in Levels :
        LET t2 == toggleTwice(Cur, p, level)
        IN  t2.ret /\ PinValue(t2.m, p, level) = PinValue(Cur, p, level)

\* C7 amended: two TOGGLEs in a row return a pin that is unconfigured or a
\* digital output to the value it had before the first; a pin that is a PWM
\* output is left a digital output holding the level the first TOGGLE read.
C7_ToggleTwiceRestoresDigital ==
    \A p \in PinsInPlay, level \in Levels :
        LET t2 == toggleTwice(Cur, p, level)
        IN  /\ t2.ret
            /\ t2.m.pinStates[p].mode = "DIGITAL_OUTPUT"
            /\ IF p \in PwmPins(Cur)
               THEN t2.m.pinStates[p].value = level
               ELSE PinValue(t2.m, p, level) = PinValue(Cur, p, level)

\* C7 witness: a toggle has just succeeded and left the pin high, and a
\* second one brings it back to low.
C7_Witness ==
    /\ last.op = "toggle" /\ last.ok
    /\ pinStates[last.pin].value = 1
    /\ \A level \in Levels :
          LET t == toggle(Cur, last.pin, level)
          IN  t.ret /\ t.m.pinStates[last.pin].value = 0

\* Command lines with an out-of-range value for pin p.
BadValueLines(p) ==
    {TextLine("SET", <<Num(p), Num(2)>>),
     TextLine("PWM", <<Num(p), Num(300)>>),
     TextLine("pwm", <<Num(p), Num(-1)>>),
     JsonLine(TRUE, [cmd |-> "SET", pin |-> Num(p), value |-> Num(-1)]),
     JsonLine(TRUE, [cmd |-> "PWM", pin |-> Num(p), value |-> Num(256)])}

\* C8: a SET whose value is not 0 or 1 and a PWM whose value is outside
\* 0..255 fail and leave the store and the hardware outputs unchanged (no
\* hardware call is made), through the parser and by a direct call.
C8_BadValueRejected ==
    \A p \in PinsInPlay :
        /\ \A v \in {-1, 2} : setDigital(Cur, p, v) = [m |-> Cur, ret |-> FALSE]
        /\ \A v \in {-1, 256, 300} : setPWM(Cur, p, v) = [m |-> Cur, ret |-> FALSE]
        /\ \A line \in BadValueLines(p) :
              /\ LET out == processCommand(Cur, line, 0)
                 IN  out.resp.success = FALSE /\ out.m = Cur
              /\ LET out == processSerialCommand(Cur, line, 0)
                 IN  out.resp.success = FALSE /\ out.m = Cur

\* C8 witness: a call with an out-of-range value on an allowed pin has just
\* failed while the pin held a record.
C8_Witness ==
    /\ last.op \in {"setDigital", "setPWM"} /\ ~last.ok
    /\ last.pin \in PinsInPlay
    /\ nextPWMChannel < PWM_CHANNEL_LIMIT
    /\ last.pin \in PwmPins(Cur)

\* C3: starting from an empty store, of the setPWM calls with an in-range
\* value on distinct allowed pins the first 16 succeed and the 17th fails,
\* and after it (as before it) each of the pins that succeeded is still a
\* PWM output with the value written to it and the channel it was given.
C3_SeventeenthPinFails ==
    /\ \A n \in 1..Len(poolCalls) : poolCalls[n].ok <=> n <= PWM_CHANNEL_LIMIT
    /\ \A n \in 1..Len(poolCalls) :
          n <= PWM_CHANNEL_LIMIT =>
             /\ pinStates[poolCalls[n].pin] =
                   [mode |-> "PWM_OUTPUT", value |-> poolCalls[n].value,
                    isInitialized |-> TRUE]
             /\ pinToPWMChannel[poolCalls[n].pin] = poolCalls[n].channel
             /\ poolCalls[n].channel = n - 1

\* C3 witness: the 17th call has just been made, and it failed.
C3_Witness ==
    /\ Len(poolCalls) = PWM_CHANNEL_LIMIT + 1
    /\ ~poolCalls[PWM_CHANNEL_LIMIT + 1].ok
    /\ last = Called("setPWM", poolCalls[PWM_CHANNEL_LIMIT + 1].pin, FALSE)

\* C9: after a RESET_PINS command on the network or the serial channel no
\* pin has a record or a channel, and a GET on any allowed pin reads the
\* hardware input.
C9_ResetPinsClears ==
    (last.op \in {"net", "serial"} /\ response.command = "RESET_PINS") =>
        /\ pinStates = EmptyMap
        /\ pinToPWMChannel = EmptyMap
        /\ \A p \in PinsInPlay, level \in Levels :
              LET g == getDigital(Cur, p, level)
              IN  g.ret = level /\ p \in PinsRead(g.m.hwCalls)

\* The open stream connections: accepted, not released, the peer there.
OpenConns == {c \in Conns : conn[c] = "open"}

\* C10: after any sequence of connection attempts, client disconnects and
\* calls of handleTCPClients at most MAX_TCP_CLIENTS stream connections are
\* open: every open connection is held in one slot, and getConnectedClients
\* counts them.
C10_AtMostMaxClients ==
    /\ Cardinality(OpenConns) <= MAX_TCP_CLIENTS
    /\ \A c \in OpenConns : \E i \in Slots : tcpClients[i] = c
    /\ \A i, j \in Slots : (tcpClients[i] # 0 /\ tcpClients[i] = tcpClients[j]) => i = j
    /\ getConnectedClients(CurNet) = Cardinality(OpenConns)

\* C10 witness: every slot holds an open connection and handleTCPClients has
\* just turned one more away.
C10_Witness ==
    /\ Cardinality(OpenConns) = MAX_TCP_CLIENTS
    /\ \E n \in 1..Len(sent) :
          /\ sent[n].what = Text("ERROR: Server full")
          /\ conn[sent[n].to] = "stopped"

\* Unread input the connections may hold when handleTCPClients runs: none,
\* one command each, a blank line and a command each, two commands on the
\* odd connections only.
InboxProbe ==
    {[c \in Conns |-> <<>>],
     [c \in Conns |-> <<TextLine("SET", <<Num(4), Num(1)>>)>>],
     [c \in Conns |-> <<BlankLine, TextLine("GET", <<Num(4)>>)>>],
     [c \in Conns |-> IF c % 2 = 1
                      THEN <<TextLine("TOGGLE", <<Num(5)>>), TextLine("foo", <<>>)>>
                      ELSE <<>>]}

\* The multiplexer's side of the network with the unread input ib.
CurNetWith(ib) == [CurNet EXCEPT !.inbox = ib]

\* A connection is pending and every slot holds an open connection.
ServerFull(st) ==
    /\ st.backlog # <<>>
    /\ \A i \in Slots : hasHandle(st, i) /\ connected(st, i)

\* C11: when a connection is pending and all MAX_TCP_CLIENTS slots hold open
\* connections, handleTCPClients sends the new connection "ERROR: Server
\* full" (which reaches it unless its peer has already gone) before anything
\* else and closes it in that call; its accept step leaves every slot, every
\* slot's connection and all unread input as they were, and at the end of the
\* call every slot still holds the same open connection, whose unread input
\* is whole but for the one line the call itself read from it.
C11_RejectLeavesClients ==
    \A ib \in InboxProbe :
        LET st == CurNetWith(ib)
            c  == Head(st.backlog)
            a  == acceptClient(st)
        IN  ServerFull(st) =>
               /\ a.sent = IF st.conn[c] = "pending"
                           THEN <<[to |-> c, what |-> Text("ERROR: Server full")]>>
                           ELSE <<>>
               /\ a.conn = [st.conn EXCEPT ![c] = "stopped"]
               /\ a.backlog = Tail(st.backlog)
               /\ a.tcpClients = st.tcpClients
               /\ a.inbox = st.inbox
               /\ a.m = st.m
               /\ \A level \in Levels :
                     LET t == handleTCPClients(st, level)
                     IN  /\ SubSeq(t.sent, 1, Len(a.sent)) = a.sent
                         /\ t.conn = a.conn
                         /\ t.tcpClients = st.tcpClients
                         /\ \A i \in Slots :
                               LET k == st.tcpClients[i]
                               IN  t.inbox[k] = IF ib[k] = <<>> THEN <<>> ELSE Tail(ib[k])

\* C11 witness: handleTCPClients has just turned a connection away and done
\* nothing else, and every slot holds an open connection.
C11_Witness ==
    /\ \A i \in Slots : hasHandle(CurNet, i) /\ connected(CurNet, i)
    /\ Len(sent) = 1
    /\ sent[1].what = Text("ERROR: Server full")
    /\ conn[sent[1].to] = "stopped"
    /\ backlog = <<>>

\* Command lines the properties execute in every reachable state: the lines
\* of the command specification and more that fail to parse.
LineProbe ==
    CmdLines \cup
    {TextLine("SET", <<Num(4), Num(2)>>),
     TextLine("PWM", <<Num(5), Num(256)>>),
     TextLine("PWM", <<Num(5), Num(255)>>),
     TextLine("SET", <<Num(4)>>),
     TextLine("TOGGLE", <<>>),
     TextLine("toggle", <<Num(0)>>),
     TextLine("GET", <<Word>>),
     JsonLine(TRUE, [pin |-> Num(4)]),
     JsonLine(TRUE, [cmd |-> "foo"]),
     JsonLine(TRUE, [cmd |-> "GET"]),
     JsonLine(TRUE, [cmd |-> "SET", pin |-> Num(4)]),
     JsonLine(TRUE, [cmd |-> "PWM", pin |-> Num(4), value |-> Num(-1)])}

\* The line does not execute successfully from controller m: it does not
\* parse, or it parses to a command neither handler has a case for, or the
\* pin operation it calls fails.
DoesNotExecute(m, line, level) ==
    LET cmd == parse(line)
    IN  \/ cmd.type = "INVALID"
        \/ cmd.type \notin {"SET", "GET", "TOGGLE", "PWM", "STATUS", "RESET", "HELP"}
        \/ cmd.type = "SET" /\ ~setDigital(m, cmd.pin, cmd.value).ret
        \/ cmd.type = "GET" /\ getDigital(m, cmd.pin, level).ret < 0
        \/ cmd.type = "TOGGLE" /\ ~toggle(m, cmd.pin, level).ret
        \/ cmd.type = "PWM" /\ ~setPWM(m, cmd.pin, cmd.value).ret

\* A response that carries success = false and a non-empty message.
FailureNotice(resp) ==
    resp.kind = "envelope" /\ resp.success = FALSE /\ Len(resp.message) > 0

\* A stream client in slot 0 whose one unread line is the given one.
StreamWith(line) ==
    [CurNet EXCEPT !.tcpClients[0] = 1, !.conn[1] = "open", !.inbox[1] = <<line>>]

\* A datagram from "peer" holding the line, waiting at the socket.
UdpWith(line) ==
    [m |-> Cur, packets |-> <<Datagram("peer", 1, line)>>, out |-> <<>>]

Accepted(command) ==
    /\ last.op \in Channels
    /\ response.command = command
    /\ response.success

\* C13: a RESET accepted on the stream, the datagram or the serial channel
\* is acknowledged at once, and the restart it asks for is then pending for
\* the scheduler's restart check of a later pass.
C13_ResetIsPending ==
    Accepted("RESET") => restartRequested

\* C14: counting from zero consecutive errors with no reset in between,
\* the restart is called exactly once, by the tenth registerError: no
\* restart has been called while fewer than MAX_CONSECUTIVE_ERRORS
\* consecutive errors are counted, exactly one once they are, a
\* registerError calls it exactly when it is the tenth, and no second
\* restart is ever called.
C14_TenthErrorRestartsOnce ==
    /\ Len(watchdog.restarts) =
           IF watchdog.consecutiveErrors >= MAX_CONSECUTIVE_ERRORS THEN 1 ELSE 0
    /\ running(watchdog) =>
           LET w == registerError(watchdog, clock)
           IN  Len(w.restarts) =
                  IF watchdog.consecutiveErrors = MAX_CONSECUTIVE_ERRORS - 1
                  THEN 1 ELSE 0

\* Ten errors in a row, nothing else: the tenth has called the restart.
C14_Witness ==
    /\ watchdog.errorCount = MAX_CONSECUTIVE_ERRORS
    /\ watchdog.consecutiveErrors = MAX_CONSECUTIVE_ERRORS
    /\ watchdog.restarts = <<"Maximum consecutive errors exceeded">>

\* C15: when every registerError comes more than ERROR_COOLDOWN_PERIOD
\* after the one before, no restart is ever called, whatever feed calls
\* were made in between.
C15_SpacedErrorsNeverRestart ==
    errorsSpaced => running(watchdog)

\* The counters after each of the three operations, called now.
AfterCalls(w) ==
    [feed |-> feed(w, clock), registerError |-> registerError(w, clock),
     clearErrors |-> clearErrors(w)]

\* C16: under feed, registerError and clearErrors the total error count
\* never decreases and is never reset, each registerError adds exactly one
\* to it, and the consecutive count stays between 0 and the total.
C16_CountersInRange ==
    /\ 0 <= watchdog.consecutiveErrors
    /\ watchdog.consecutiveErrors <= watchdog.errorCount
    /\ LET after == AfterCalls(watchdog)
       IN  /\ after.feed.errorCount = watchdog.errorCount
           /\ after.clearErrors.errorCount = watchdog.errorCount
           /\ after.registerError.errorCount = watchdog.errorCount + 1
           /\ \A op \in DOMAIN after :
                  /\ 0 <= after[op].consecutiveErrors
                  /\ after[op].consecutiveErrors <= after[op].errorCount

\* Errors were registered, cleared by clearErrors or by a feed after the
\* cooldown, and registered again.
C16_Witness ==
    /\ watchdog.errorCount = MaxErrors
    /\ watchdog.consecutiveErrors = 1
    /\ watchdog.lastFeed > 0
    /\ running(watchdog)

RestartReasons ==
    {"User requested restart", "Automatic restart due to errors",
     "Maximum consecutive errors exceeded"}

\* C17: the process restarts only through the Supervisor's restart, and
\* only when the consecutive-error threshold is reached or a restart was
\* requested: a restart that happened was called once, with one of the
\* Supervisor's reasons, a user restart with a request pending and due,
\* the others at the threshold; and no command executed in the current
\* state, on any channel, restarts the process by itself.
C17_RestartOnlyBySupervisor ==
    /\ ~running(watchdog) =>
           /\ Len(watchdog.restarts) = 1
           /\ watchdog.restarts[1] \in RestartReasons
           /\ IF watchdog.restarts[1] = "User requested restart"
              THEN restartRequested /\ restartTime < clock
              ELSE shouldRestart(watchdog)
    /\ running(watchdog) =>
           \A line \in LoopLines, level \in Levels :
               /\ ~processCommand(Cur, line, level).restart
               /\ LET out == processSerialCommand(Cur, line, level)
                      req == requestRestart(clock, RESET_DELAY_MS)
                  IN  out.restart =>
                         ~restartDue(req.restartRequested, clock, req.restartTime)

\* A RESET typed at the serial console was carried out by the scheduler.
C17_Witness ==
    /\ watchdog.restarts = <<"User requested restart">>
    /\ restartRequested
    /\ watchdog.consecutiveErrors < MAX_CONSECUTIVE_ERRORS

\* C18: the Pin State Store is changed only by the scheduler's commands:
\* a step of an HTTP handler leaves the store as it was.
C18_HttpHandlersOnlyRead ==
    [][last'.op = "http" => UNCHANGED store]_vars

\* The argument lists and the members the parser is probed with.
ArgsProbe ==
    {<<>>, <<Num(4)>>, <<Num(0)>>, <<Word>>, <<Num(4), Num(0)>>, <<Num(4), Num(1)>>,
     <<Num(4), Num(2)>>, <<Num(4), Num(255)>>, <<Num(4), Num(256)>>,
     <<Num(4), Num(-1)>>, <<Num(4), Word>>, <<Num(34), Num(1)>>}

MembersProbe(word) ==
    {[cmd |-> word]}
      \cup {[cmd |-> word, pin |-> p] : p \in {Num(4), Num(0), Word}}
      \cup {[cmd |-> word, pin |-> Num(4), value |-> v] :
               v \in {Num(0), Num(1), Num(2), Num(255), Num(256), Num(-1), Word}}
      \cup {[cmd |-> word, value |-> Num(1)]}

\* What parse may return: a rejection with its reason, or a command whose
\* pin and value are in range.
WellFormed(cmd) ==
    IF cmd.type = "INVALID" THEN cmd.errorMessage # ""
    ELSE /\ cmd.type \in UpperWords \ {"FOO"}
         /\ cmd.type \in {"SET", "GET", "TOGGLE", "PWM"} => cmd.pin \in AllSafePins
         /\ cmd.type = "SET" => cmd.value \in {0, 1}
         /\ cmd.type = "PWM" => cmd.value \in 0..255

\* C19: parse returns either a rejection with a non-empty reason or a
\* command with its pin among the safe pins, a SET value of 0 or 1 and a
\* PWM value within 0..255; and it returns the same for every spelling of
\* a keyword in upper and lower case, in a text line and in a structured
\* message.  The command of a response that reports success was such a
\* command.
C19_ParseWellFormed ==
    /\ (response.kind = "envelope" /\ response.success) =>
           WellFormed([type |-> response.command, pin |-> response.pin,
                       value |-> response.value, errorMessage |-> ""])
    /\ WellFormed(parse(BlankLine))
    /\ WellFormed(parse(JsonLine(FALSE, [cmd |-> "SET"])))
    /\ WellFormed(parse(JsonLine(TRUE, [pin |-> Num(4)])))
    /\ \A word \in UpperWords : \A spelt \in Spellings(word) :
           /\ \A args \in ArgsProbe :
                  LET cmd == parse(TextLine(spelt, args))
                  IN  WellFormed(cmd) /\ cmd = parse(TextLine(word, args))
           /\ \A members \in MembersProbe(spelt) :
                  LET cmd == parse(JsonLine(TRUE, members))
                  IN  /\ WellFormed(cmd)
                      /\ cmd = parse(JsonLine(TRUE, [members EXCEPT !.cmd = word]))

\* The line "set 4 0", in lower case, was parsed and executed.
C19_Witness ==
    /\ last.op \in {"net", "serial"}
    /\ response.success
    /\ response.command = "SET"
    /\ response.pin = 4
    /\ response.value = 0

\* The structured message with the command, pin and value members of a
\* response, pin and value only where the response has them.
MessageOf(resp) ==
    LET named  == [cmd |-> resp.command]
        pinned == IF resp.pin >= 0 THEN named @@ ("pin" :> Num(resp.pin)) ELSE named
    IN  JsonLine(TRUE, IF resp.value >= 0
                       THEN pinned @@ ("value" :> Num(resp.value))
                       ELSE pinned)

\* The same type, pin and value.
SameCommand(c, d) == c.type = d.type /\ c.pin = d.pin /\ c.value = d.value

\* C20: a successfully parsed command, of any of the eight keywords,
\* rendered by generateResponse and parsed again from the structured
\* message made of the response's command, pin and value, is the same
\* command: rendered with its own value, and rendered as processCommand
\* renders it after executing it in the current state.
C20_RenderThenParse ==
    /\ \A word \in UpperWords, args \in ArgsProbe :
           LET cmd == parse(TextLine(word, args))
           IN  cmd.type # "INVALID" =>
                  \A result \in {cmd.value, 0, 1} :
                      (result = cmd.value \/ cmd.type \in {"GET", "TOGGLE"}) =>
                          SameCommand(parse(MessageOf(
                              generateResponse(cmd, TRUE, "", result))), cmd)
    /\ \A line \in LineProbe, level \in Levels :
           LET cmd  == parse(line)
               resp == processCommand(Cur, line, level).resp
           IN  (cmd.type # "INVALID" /\ resp.kind = "envelope") =>
                  SameCommand(parse(MessageOf(resp)), cmd)

\* A TOGGLE was executed and its response carries the new level, which
\* the command itself has not.
C20_Witness ==
    /\ last.op = "net"
    /\ response.kind = "envelope"
    /\ response.success
    /\ response.command = "TOGGLE"
    /\ response.pin = 4
    /\ response.value = 1

\* C21: MAX_CONSECUTIVE_ERRORS valid commands in a row that fail in
\* execution, with less than the cooldown between them, have made the
\* Supervisor restart the process.
C21_FailuresRestart ==
    failStreak >= MAX_CONSECUTIVE_ERRORS => ~running(watchdog)

\* The slots that are free: empty, or holding a connection that has closed.
FreeSlots(st) == {i \in Slots : ~hasHandle(st, i) \/ ~connected(st, i)}

\* C22: one call of handleTCPClients takes at most one connection from
\* the listener, the one that waited longest; if a slot is free the
\* connection goes into the free slot of the lowest index and every other
\* slot keeps its handle through the accept; and a slot that held an open
\* connection still holds that connection, open, when the call returns.
C22_AcceptsIntoFirstFreeSlot ==
    LET st == CurNet
        a  == acceptClient(st)
        t  == handleTCPClients(st, 0)
    IN  /\ t.backlog = a.backlog
        /\ a.backlog = IF st.backlog = <<>> THEN <<>> ELSE Tail(st.backlog)
        /\ (st.backlog # <<>> /\ FreeSlots(st) # {}) =>
               \E i \in FreeSlots(st) :
                   /\ \A j \in FreeSlots(st) : i <= j
                   /\ a.tcpClients[i] = Head(st.backlog)
                   /\ \A j \in Slots \ {i} : a.tcpClients[j] = st.tcpClients[j]
        /\ \A i \in Slots :
               connected(st, i) =>
                   /\ a.tcpClients[i] = st.tcpClients[i]
                   /\ t.tcpClients[i] = st.tcpClients[i]
                   /\ connected(t, i)

\* A connection was placed in slot 0 after the one there had closed, while
\* slot 1 kept its open connection.
C22_Witness ==
    /\ tcpClients[0] = 3
    /\ conn[3] = "open"
    /\ tcpClients[1] = 2
    /\ conn[2] = "open"
    /\ conn[1] = "stopped"


\* The connections a call of handleTCPClients on st reads from: those it
\* holds in a slot, open, once the pending connection is accepted.
Served(st) ==
    LET a == acceptClient(st)
    IN  {c \in Conns : \E i \in Slots : a.tcpClients[i] = c /\ connected(a, i)}

\* The positions in sq of the responses to commands sent by the addresses in S.
Answers(sq, S) == {k \in 1..Len(sq) : sq[k].to \in S /\ sq[k].what.kind # "line"}

\* C23: one call of NetworkServer::loop reads and executes at most one
\* command of each open stream client and services at most one waiting
\* datagram, however many are queued; what it does not read stays queued in
\* the order it arrived.
C23_OneCommandPerChannelPerTick ==
    \A level \in Levels :
        LET r == networkLoop(CurNet, packets, level)
            t == r.net
            read == {c \in Served(CurNet) : inbox[c] # <<>>}
        IN  /\ \A c \in Conns :
                  /\ t.inbox[c] = IF c \in read THEN Tail(inbox[c]) ELSE inbox[c]
                  /\ Cardinality(Answers(t.sent, {c})) = IF c \in read THEN 1 ELSE 0
            /\ r.packets = IF packets = <<>> THEN <<>> ELSE Tail(packets)
            /\ Cardinality(Answers(t.sent, Peers)) = IF packets = <<>> THEN 0 ELSE 1

\* A call has answered one command of connection 1 and one datagram and has
\* left a command of each queued.
C23_Witness ==
    /\ Answers(sent, {1}) # {}
    /\ Answers(sent, Peers) # {}
    /\ inbox[1] # <<>>
    /\ packets # <<>>

\* The commands one call of NetworkServer::loop executes, in its order: the
\* first unread line of each connection it reads from, slot by slot, then
\* the first waiting datagram.  Each is [from, line].
Executed(st, pk) ==
    LET a     == acceptClient(st)
        slots == [k \in 1..MAX_TCP_CLIENTS |-> a.tcpClients[k - 1]]
        reads(c) == c \in Served(st) /\ st.inbox[c] # <<>>
        lines == SelectSeq(slots, reads)
    IN  [k \in 1..Len(lines) |-> [from |-> lines[k], line |-> Head(st.inbox[lines[k]])]]
        \o (IF pk = <<>> THEN <<>> ELSE <<[from |-> Head(pk).from, line |-> Head(pk).line]>>)

RECURSIVE Replay(_, _, _, _)
\* The commands of cmds executed one after the other on the store m, each
\* answered to its sender before the next: the store at the end and the
\* answers in order.
Replay(m, cmds, level, out) ==
    IF cmds = <<>> THEN [m |-> m, out |-> out]
    ELSE LET o == processCommand(m, Head(cmds).line, level)
         IN  Replay(o.m, Tail(cmds), level,
                    Append(out, [to |-> Head(cmds).from, what |-> o.resp]))

IsAnswer(e) == e.what.kind # "line"

\* C24: the responses one call of NetworkServer::loop writes are, in order,
\* the responses to the commands it executes, each addressed to the
\* connection or the datagram sender its command came from and each
\* computed on the store the earlier commands left.
C24_ResponsesFollowExecution ==
    \A level \in Levels :
        LET r == networkLoop(CurNet, packets, level)
            e == Replay(Cur, Executed(CurNet, packets), level, <<>>)
        IN  /\ SelectSeq(r.net.sent, IsAnswer) = e.out
            /\ r.net.m = e.m

\* A call has answered two stream clients and then a datagram.
C24_Witness ==
    LET answers == SelectSeq(sent, IsAnswer)
    IN  /\ Len(answers) = MuxClients + 1
        /\ answers[1].to \in Conns
        /\ answers[2].to \in Conns \ {answers[1].to}
        /\ answers[MuxClients + 1].to \in Peers
        /\ answers[1].what.value = 1
        /\ answers[MuxClients + 1].what.value = 0

\* C25: a call of handleTCPClients that finds a slot holding a connection
\* that is no longer connected stops that connection and leaves the slot
\* free, empty or filled by the connection accepted in the same call; a
\* connection attempt that follows is not turned away.
C25_ClosedSlotReleased ==
    LET st == CurNet
        t  == handleTCPClients(st, 0)
    IN  \A i \in Slots :
            (st.tcpClients[i] # 0 /\ ~connected(st, i)) =>
                /\ t.conn[st.tcpClients[i]] = "stopped"
                /\ t.tcpClients[i] # st.tcpClients[i]
                /\ \/ t.tcpClients[i] = 0
                   \/ st.backlog # <<>> /\ t.tcpClients[i] = Head(st.backlog)
                /\ t.tcpClients[i] = 0 =>
                       \A c \in Conns :
                           t.conn[c] = "unused" =>
                               LET n == acceptClient([t EXCEPT !.conn[c] = "pending",
                                                               !.backlog = Append(@, c)])
                               IN  t.backlog = <<>> => \E j \in Slots : n.tcpClients[j] = c

\* A slot is empty again and its connection stopped while others are open.
C25_Witness ==
    /\ tcpClients[0] = 0
    /\ conn[1] = "stopped"
    /\ tcpClients[1] = 2
    /\ conn[2] = "open"

\* The steps of a pass of loop() in their order.
PassOrder == <<"feed", "network", "serial", "led", "restart">>

\* C26: the steps of a pass are taken in the order feed, network server,
\* serial console, LED and heartbeat, restart checks; the device restarts
\* only in the restart checks, after the steps that execute commands in
\* that pass.
C26_PassOrder ==
    /\ Len(steps) <= Len(PassOrder)
    /\ steps = SubSeq(PassOrder, 1, Len(steps))
    /\ ~running(watchdog) => steps = PassOrder

\* The console asked for a restart and the pass that ends restarts.
C26_Witness ==
    /\ watchdog.restarts = <<"User requested restart">>
    /\ steps = PassOrder
    /\ last.op = "serial"

\* The times after now at which a call of feed() is tried.
FeedProbe ==
    {0, FEED_INTERVAL - 1, FEED_INTERVAL, ERROR_COOLDOWN_PERIOD, ERROR_COOLDOWN_PERIOD + 1}

\* C27: feed() less than FEED_INTERVAL after the last feed that took effect
\* changes nothing of the watchdog; any other feed() records its time,
\* clears the consecutive errors exactly if there are some and the last
\* error is more than ERROR_COOLDOWN_PERIOD old, and leaves the total, the
\* last error and its time as they are.
C27_FeedFrame ==
    \A d \in FeedProbe :
        LET t == clock + d
            w == watchdog
            f == feed(w, t)
        IN  IF t - w.lastFeed < FEED_INTERVAL
            THEN f = w
            ELSE /\ f.lastFeed = t
                 /\ f.errorCount = w.errorCount
                 /\ f.lastError = w.lastError
                 /\ f.lastErrorTime = w.lastErrorTime
                 /\ f.restarts = w.restarts
                 /\ f.consecutiveErrors =
                        IF w.consecutiveErrors > 0 /\ t - w.lastErrorTime > ERROR_COOLDOWN_PERIOD
                        THEN 0
                        ELSE w.consecutiveErrors

\* A feed has cleared the consecutive errors once the cooldown was over.
C27_Witness ==
    /\ watchdog.errorCount > 1
    /\ watchdog.consecutiveErrors = 0
    /\ watchdog.lastFeed = clock
    /\ watchdog.lastFeed - watchdog.lastErrorTime > ERROR_COOLDOWN_PERIOD

\* A call of NetworkServer::loop that turns a connection away or reads a
\* line that does not parse.
Refuses ==
    \/ ServerFull(CurNet)
    \/ \E k \in 1..Len(Executed(CurNet, packets)) :
           parse(Executed(CurNet, packets)[k].line).type = "INVALID"

\* C28: a call of NetworkServer::loop that reads a command that does not
\* parse, or that turns a connection away because every slot is taken,
\* leaves the watchdog's total and consecutive errors and its last error as
\* they were.
C28_RefusalsNotRegistered ==
    [][(NetworkLoop(0) /\ Refuses) =>
           /\ watchdog'.errorCount = watchdog.errorCount
           /\ watchdog'.consecutiveErrors = watchdog.consecutiveErrors
           /\ watchdog'.lastError = watchdog.lastError]_vars

\* With an error registered by setup(), one call of the server has turned a
\* connection away and answered a line that does not parse.
C28_Witness ==
    /\ watchdog.errorCount = 1
    /\ \E k \in 1..Len(sent) : sent[k].what = Text("ERROR: Server full")
    /\ \E k \in 1..Len(sent) : sent[k].what.kind = "envelope" /\ ~sent[k].what.success

RECURSIVE Bracketed(_, _)
\* The calls are made in blocks of suspend, calls to the bot, resume: no
\* suspend while suspended, no resume and no call to the bot while not, and
\* nothing left suspended at the end.
Bracketed(calls, suspended) ==
    IF calls = <<>> THEN ~suspended
    ELSE CASE Head(calls).op = "suspend" -> ~suspended /\ Bracketed(Tail(calls), TRUE)
           [] Head(calls).op = "resume"  -> suspended /\ Bracketed(Tail(calls), FALSE)
           [] OTHER                      -> suspended /\ Bracketed(Tail(calls), suspended)

C30_GetDigitalFrame ==
    \A p \in PinProbe, level \in Levels :
        LET g == getDigital(Cur, p, level)
            cached == /\ p \in DOMAIN pinStates
                      /\ pinStates[p].isInitialized
                      /\ pinStates[p].mode = "DIGITAL_OUTPUT"
        IN  /\ isValidPin(p)
            /\ StoreOf(g.m) = store
            /\ IF cached
               THEN /\ g.ret = pinStates[p].value
                    /\ g.m = Cur
               ELSE /\ g.ret = level
                    /\ g.m.hwMode = [hwMode EXCEPT ![p] = "INPUT"]
                    /\ g.m.hwCalls = <<<<"pinMode", p, "INPUT">>, <<"digitalRead", p>>>>

\* A GET has read pin 4 while the store has it as a PWM output.
C30_Witness ==
    /\ response.command = "GET"
    /\ response.success
    /\ 4 \in DOMAIN pinStates
    /\ pinStates[4].mode = "PWM_OUTPUT"
    /\ hwMode[4] = "INPUT"

\* The recorded mode of each pin the properties try.
ModesOf(m) == [p \in PinProbe |-> getPinMode(m, p)]

\* C31: a pin's recorded mode changes only to DIGITAL_OUTPUT by a successful
\* setDigital or toggle on that pin, to PWM_OUTPUT by a successful setPWM on
\* that pin, and back to NOT_CONFIGURED by resetAllPins, which puts every
\* pin there at once; getDigital and the failed setters change no pin's
\* mode; and a successful setter on a pin already in its mode changes
\* nothing in the store but that pin's value.
C31_ModeChangesOnlyBySetters ==
    [][ /\ \A p \in PinProbe :
              getPinMode(Cur, p)' # getPinMode(Cur, p) =>
                  \/ /\ getPinMode(Cur, p)' = "DIGITAL_OUTPUT"
                     /\ last' \in {Called("setDigital", p, TRUE), Called("toggle", p, TRUE)}
                  \/ /\ getPinMode(Cur, p)' = "PWM_OUTPUT"
                     /\ last' = Called("setPWM", p, TRUE)
                  \/ /\ last' = Called("resetAllPins", -1, TRUE)
                     /\ \A q \in PinProbe : getPinMode(Cur, q)' = "NOT_CONFIGURED"
        /\ (last'.op = "getDigital" \/ ~last'.ok) => ModesOf(Cur)' = ModesOf(Cur)
        /\ \A p \in PinProbe :
              /\ last'.pin = p /\ last'.ok
              /\ \/ last'.op = "setDigital" /\ getPinMode(Cur, p) = "DIGITAL_OUTPUT"
                 \/ last'.op = "setPWM" /\ getPinMode(Cur, p) = "PWM_OUTPUT"
              => /\ \E v \in 0..255 : pinStates' = [pinStates EXCEPT ![p].value = v]
                 /\ pinToPWMChannel' = pinToPWMChannel
                 /\ nextPWMChannel' = nextPWMChannel
      ]_vars

\* A toggle has just made a PWM pin a digital output while the other pin in
\* play stays a PWM output.
C31_Witness ==
    /\ last = Called("toggle", 4, TRUE)
    /\ getPinMode(Cur, 4) = "DIGITAL_OUTPUT"
    /\ 4 \in DOMAIN pinToPWMChannel
    /\ getPinMode(Cur, 5) = "PWM_OUTPUT"

\* setPWM(pin, value) on each pin of a sequence in turn, up to the first
\* that fails: the controller it leaves and whether every call succeeded.
RECURSIVE setPWMEach(_, _, _)
setPWMEach(m, pins, value) ==
    IF pins = <<>> THEN [m |-> m, ret |-> TRUE]
    ELSE LET r == setPWM(m, Head(pins), value)
         IN  IF r.ret THEN setPWMEach(r.m, Tail(pins), value)
             ELSE [m |-> r.m, ret |-> FALSE]

\* C32: resetAllPins, in every reachable state, returns success and leaves
\* no record, no channel assignment and the channel counter at zero; it
\* writes LOW to every pin that was a digital output and duty 0 to the
\* channel of every pin that was a PWM output; and setPWM on 16 distinct
\* allowed pins succeeds afterwards.  A resetAllPins that has just run has
\* left the store empty.
C32_ResetAllPinsStartsOver ==
    LET r == resetAllPins(Cur)
        calls == {r.m.hwCalls[i] : i \in DOMAIN r.m.hwCalls}
        again == setPWMEach(Quiet(r.m), SubSeq(SAFE_PINS, 1, PWM_CHANNEL_LIMIT), 255)
    IN  /\ r.ret
        /\ StoreOf(r.m) = <<EmptyMap, EmptyMap, 0>>
        /\ \A p \in DOMAIN pinStates :
              /\ pinStates[p].isInitialized /\ pinStates[p].mode = "DIGITAL_OUTPUT"
                    => <<"digitalWrite", p, 0>> \in calls
              /\ pinStates[p].isInitialized /\ pinStates[p].mode = "PWM_OUTPUT"
                    => <<"ledcWrite", pinToPWMChannel[p], 0>> \in calls
        /\ again.ret
        /\ Cardinality(PwmPins(again.m)) = PWM_CHANNEL_LIMIT
        /\ last.op = "resetAllPins" => last.ok /\ store = <<EmptyMap, EmptyMap, 0>>

\* resetAllPins has just run and emptied the store; pin 4 had been made an
\* output before.
C32_Witness ==
    /\ last = Called("resetAllPins", -1, TRUE)
    /\ store = <<EmptyMap, EmptyMap, 0>>
    /\ hwMode[4] = "OUTPUT"

\* C33: in every reachable state a pin has a PWM channel assignment exactly
\* when its recorded mode is PWM_OUTPUT; a pin that setDigital or toggle has
\* switched from PWM_OUTPUT to DIGITAL_OUTPUT holds no channel.
C33_ChannelIffPwmMode ==
    \A p \in AllSafePins :
        p \in DOMAIN pinToPWMChannel <=> getPinMode(Cur, p) = "PWM_OUTPUT"

\* The pins with an initialized record.
Configured(m) == {p \in AllSafePins : isPinConfigured(m, p)}

\* C34: getStateJSON and getAllPinStates list exactly the pins whose record
\* is initialized, each once, with its recorded mode and value;
\* getAllPinStates reports "None" exactly when no pin is configured; and
\* neither changes the store or touches the hardware.
C34_ProjectionsListConfiguredPins ==
    LET j == getStateJSON(Cur)
        a == getAllPinStates(Cur)
        none == [pin |-> -1, what |-> "None", value |-> -1]
        lines == {a.ret[i] : i \in DOMAIN a.ret}
    IN  /\ j.m = Cur /\ a.m = Cur
        /\ Len(j.ret) = Cardinality(Configured(Cur))
        /\ {j.ret[i] : i \in DOMAIN j.ret}
               = {[pin |-> p, value |-> pinStates[p].value,
                   mode |-> IF pinStates[p].mode = "DIGITAL_OUTPUT" THEN "digital" ELSE "pwm"]
                    : p \in Configured(Cur)}
        /\ none \in lines <=> Configured(Cur) = {}
        /\ Len(a.ret) = Cardinality(lines)
        /\ lines \ {none}
               = {[pin |-> p, value |-> pinStates[p].value,
                   what |-> IF pinStates[p].mode = "DIGITAL_OUTPUT" THEN "DIGITAL" ELSE "PWM"]
                    : p \in Configured(Cur)}
        /\ \A p \in Configured(Cur) : pinStates[p].mode \in {"DIGITAL_OUTPUT", "PWM_OUTPUT"}

\* The store holds a record that is not initialized (left by a setPWM that
\* found no channel) beside the record of pin 4; the listings leave it out.
C34_Witness ==
    /\ 5 \in DOMAIN pinStates
    /\ ~pinStates[5].isInitialized
    /\ Configured(Cur) = {4}
    /\ Len(getStateJSON(Cur).ret) = 1
    /\ Len(getAllPinStates(Cur).ret) = 1

\* C35: a setter that finds its pin unconfigured or in the other mode first
\* configures it with recorded value 0, the output driven LOW (duty 0), and
\* then applies the requested value: after a successful setDigital(p, v) or
\* setPWM(p, v) of this kind the record is the new mode with value v.
C35_ReconfigureStartsFromZero ==
    \A p \in PinProbe :
        /\ getPinMode(Cur, p) # "DIGITAL_OUTPUT" =>
              \A v \in Levels :
                  LET c == configureDigitalOutput(TouchPinState(Cur, p), p)
                      r == setDigital(Cur, p, v)
                  IN  /\ c.ret /\ c.m.pinStates[p].value = 0
                      /\ r.ret
                      /\ r.m.pinStates[p] =
                            [mode |-> "DIGITAL_OUTPUT", value |-> v, isInitialized |-> TRUE]
                      /\ r.m.hwCalls = <<<<"pinMode", p, "OUTPUT">>,
                                         <<"digitalWrite", p, 0>>,
                                         <<"digitalWrite", p, v>>>>
        /\ getPinMode(Cur, p) # "PWM_OUTPUT" /\ nextPWMChannel < PWM_CHANNEL_LIMIT =>
              \A v \in {0, 1, 255} :
                  LET c == configurePWMOutput(TouchPinState(Cur, p), p)
                      r == setPWM(Cur, p, v)
                      channel == nextPWMChannel
                  IN  /\ c.ret /\ c.m.pinStates[p].value = 0
                      /\ r.ret
                      /\ r.m.pinStates[p] =
                            [mode |-> "PWM_OUTPUT", value |-> v, isInitialized |-> TRUE]
                      /\ r.m.hwCalls = <<<<"ledcSetup", channel>>,
                                         <<"ledcAttachPin", p, channel>>,
                                         <<"ledcWrite", channel, 0>>,
                                         <<"ledcWrite", channel, v>>>>

\* Pin 4, the only pin addressed, has been a PWM output, then a digital
\* output, and a setPWM has made it a PWM output again, on the second
\* channel and with the value just requested.
C35_Witness ==
    /\ last = Called("setPWM", 4, TRUE)
    /\ DOMAIN pinStates = {4}
    /\ pinStates[4] = [mode |-> "PWM_OUTPUT", value |-> 255, isInitialized |-> TRUE]
    /\ pinToPWMChannel[4] = 1
    /\ hwMode[4] = "OUTPUT"

\* Commands handed to generateResponse: with and without a pin, with and
\* without a recorded failure reason.
CommandProbe ==
    {[type |-> t, pin |-> p, value |-> -1, errorMessage |-> e] :
        t \in {"INVALID", "GET", "STATUS"}, p \in {-1, 0, 4},
        e \in {"", "Missing pin parameter"}}

\* C36: generateResponse includes the pin member exactly when the command's
\* pin is not negative and the value member exactly when the result value
\* is not negative; the message is the caller's when that is not empty,
\* else the command's recorded failure reason when success is false and
\* there is one, else there is no message member.  So is the response to a
\* line executed in the current state: of a rejected line it carries the
\* parser's reason and no value.
C36_ResponseMembers ==
    /\ \A cmd \in CommandProbe, success \in BOOLEAN,
          message \in {"", "Pin value retrieved"}, resultValue \in {-1, 0, 1, 255} :
           LET r == generateResponse(cmd, success, message, resultValue)
           IN  /\ r.pin = (IF cmd.pin >= 0 THEN cmd.pin ELSE -1)
               /\ r.value = (IF resultValue >= 0 THEN resultValue ELSE -1)
               /\ r.message = (IF message # "" THEN message
                               ELSE IF ~success /\ cmd.errorMessage # ""
                                    THEN cmd.errorMessage
                                    ELSE "")
               /\ r.success = success
    /\ \A line \in LineProbe, level \in Levels :
           LET cmd  == parse(line)
               resp == processCommand(Cur, line, level).resp
           IN  resp.kind = "envelope" =>
                  /\ resp.pin >= 0 <=> cmd.pin >= 0
                  /\ cmd.type = "INVALID" =>
                         ~resp.success /\ resp.message = cmd.errorMessage /\ resp.value = -1
    /\ response.kind = "envelope" /\ response.message = "" => response.success

\* The last line was rejected for its pin 0: the response names the pin,
\* carries the parser's reason and has no value.
C36_Witness ==
    /\ response.kind = "envelope"
    /\ ~response.success
    /\ response.pin = 0
    /\ response.value = -1
    /\ response.message = "Invalid pin number: 0"

\* C37: setPWM with a value within 0..255 on an allowed pin succeeds
\* whenever fewer than 16 pins are PWM outputs, whatever operations came
\* before, and fails for want of a channel only when 16 pins hold one.
C37_SetPWMSucceedsBelowSixteen ==
    \A p \in PinProbe, v \in {0, 255} :
        LET r == setPWM(Cur, p, v)
        IN  /\ Cardinality(PwmPins(Cur)) < PWM_CHANNEL_LIMIT => r.ret
            /\ ~r.ret => Cardinality(PwmPins(Cur)) = PWM_CHANNEL_LIMIT

\* The pinMode calls on a pin among the hardware calls of an operation.
PinModeCalls(m, p) ==
    {i \in DOMAIN m.hwCalls : m.hwCalls[i][1] = "pinMode" /\ m.hwCalls[i][2] = p}

\* C38: the hardware configuration of a pin agrees with its record.  A pin
\* recorded as a digital output was last set up as an output, and a
\* successful setDigital ends by writing the recorded value; a successful
\* setPWM ends by writing the recorded duty to the pin's channel; and no
\* getDigital or toggle changes the pin mode of a pin whose record it
\* leaves a PWM output.
C38_HardwareAgreesWithRecord ==
    \A p \in PinProbe :
        /\ getPinMode(Cur, p) = "DIGITAL_OUTPUT" => hwMode[p] = "OUTPUT"
        /\ \A v \in Levels :
              LET r == setDigital(Cur, p, v)
              IN  r.ret => /\ r.m.hwMode[p] = "OUTPUT"
                           /\ r.m.hwCalls[Len(r.m.hwCalls)]
                                 = <<"digitalWrite", p, r.m.pinStates[p].value>>
        /\ LET r == setPWM(Cur, p, 255)
           IN  r.ret => r.m.hwCalls[Len(r.m.hwCalls)]
                           = <<"ledcWrite", r.m.pinToPWMChannel[p], r.m.pinStates[p].value>>
        /\ \A level \in Levels :
              LET g == getDigital(Cur, p, level)
                  t == toggle(Cur, p, level)
              IN  /\ getPinMode(g.m, p) = "PWM_OUTPUT" => PinModeCalls(g.m, p) = {}
                  /\ getPinMode(t.m, p) = "PWM_OUTPUT" => PinModeCalls(t.m, p) = {}

\* Lines whose value parameter, or whose pin parameter, is not an integer.
NonIntegerLines ==
    {TextLine(kw, <<Num(p), Word>>) : kw \in {"SET", "PWM"}, p \in PinsInPlay}
      \cup {JsonLine(TRUE, [cmd |-> kw, pin |-> Num(p), value |-> Word]) :
               kw \in {"SET", "PWM"}, p \in PinsInPlay}
      \cup {TextLine(kw, <<Word, Num(1)>>) : kw \in {"SET", "PWM"}}
      \cup {TextLine(kw, <<Word>>) : kw \in {"GET", "TOGGLE"}}
      \cup {JsonLine(TRUE, [cmd |-> kw, pin |-> Word, value |-> Num(1)]) :
               kw \in {"SET", "GET", "TOGGLE", "PWM"}}

\* C39: a SET or PWM line whose value parameter is not an integer, and a
\* line of a pin-carrying command whose pin parameter is not an integer,
\* is returned as INVALID by parse; handed to the network or the serial
\* handler in any reachable state, it is answered with a failure and leaves
\* the store and the hardware as they were.
C39_NonIntegerRejected ==
    \A line \in NonIntegerLines :
        /\ parse(line).type = "INVALID"
        /\ \A level \in Levels :
              LET n == processCommand(Cur, line, level)
                  s == processSerialCommand(Cur, line, level)
              IN  /\ n.m = Cur /\ ~n.resp.success
                  /\ s.m = Cur /\ ~s.resp.success

\* C40: a command line executed by the serial console handler and by the
\* network multiplexer's handler, in any reachable state, leaves the same
\* Pin State Store, reports the same success flag and result value where
\* both answer with a response envelope, and leaves the same restart
\* request.
C40_SerialEqualsNetwork ==
    \A line \in LineProbe \cup NonIntegerLines, level \in Levels :
        LET n == processCommand(Cur, line, level)
            s == processSerialCommand(Cur, line, level)
        IN  /\ StoreOf(s.m) = StoreOf(n.m)
            /\ s.m.hwMode = n.m.hwMode
            /\ (s.resp.kind = "envelope" /\ n.resp.kind = "envelope") =>
                   s.resp.success = n.resp.success /\ s.resp.value = n.resp.value
            /\ (restartRequested \/ s.restart) = (restartRequested \/ n.restart)

====
